---- MODULE Spec2Model ----
(***************************************************************************)
(* A model of bulk_extractor's image reader (image_process.cpp:            *)
(* process_raw, the image_process::open factory), of pcap_writer and of    *)
(* the scan_facebook scanner.                                              *)
(*                                                                         *)
(* Sizes, offsets and counts are natural numbers.  The model's bounds keep *)
(* every count far below 2^31, so the narrowing of pread's ssize_t result  *)
(* to `int count_read` in sbuf_alloc and the 64-bit wrap of size_t sums    *)
(* are the identity on every value the model reaches.                      *)
(***************************************************************************)
EXTENDS Integers, Sequences, FiniteSets, TLC

(***************************************************************************)
(* Bounds of the model.                                                    *)
(***************************************************************************)
NFiles == 3          \* files of the split image that may exist on disk
MaxSegLen == 3       \* largest size of one segment file, in bytes
MaxSegs == 3         \* longest segment list
MaxPagesize == 3     \* largest pagesize
MaxMargin == 2       \* largest margin
MaxBlock == 4        \* largest block number given to seek_block
MaxBytes == 4        \* largest count given to pread
MaxIo == 2           \* system calls of one pread whose result is cut short
MaxCut == 1          \* a cut system call returns at most this many bytes
MaxPathLen == 5      \* longest path given to image_process::open
MaxEntries == 2      \* most entries of a directory given to image_process::open
MaxImage == 4        \* largest size of an E01 image, in bytes
MaxDirFiles == 3     \* most regular files under a directory
MaxPkts == 2         \* most calls of pcap_writepkt on one writer
NNeedles == 2        \* the needles of facebook_searches the scanner looks for

VARIABLES
    \* ---- environment of process_raw
    disk,               \* file name -> size of the file in bytes
    readable,           \* the files access(R_OK) accepts
    multipart,          \* is_multipart_file(image_fname())
    fdtable,            \* the kernel's descriptor table: fd -> file name
    \* ---- process_raw
    pagesize, margin,
    opened,             \* open() has run
    file_list, raw_filesize,
    current_file_name, current_fd,
    it,                 \* the iterator the caller holds
    trav,               \* the traversal since begin(): pages allocated so far
    ret,                \* what the last call returned or threw
    \* ---- image_process::open (the factory)
    have_libewf,        \* the build defines HAVE_LIBEWF
    factory,            \* the call of image_process::open and its outcome
    \* ---- pcap_writer
    pcap,               \* the writer (fcap) and the output file
    \* ---- scan_facebook
    fb,                 \* the call of scan_facebook and the features it wrote
    \* ---- process_ewf
    ewf,                \* the process_ewf object and the iterator on it
    \* ---- process_dir
    dir,                \* the process_dir object and the iterator on it
    \* ---- scan_windirs
    opt,                \* the opt_* configuration statics of scan_windirs.cpp
    \* ---- scan_windirs
    win,                \* the phase of scan_windirs and its last operation
    \* ---- pcap_writer, concurrent
    mt,                 \* the pcap_writer shared by several threads, and the threads
    \* ---- process_raw, concurrent
    rd,                 \* the process_raw shared by several threads, and the threads
    \* ---- process_raw::open on path names
    tp,                 \* the path process_raw::open was given and the segment list it built
    \* ---- process_raw::pread, recursion
    rc,                 \* the call of process_raw::pread under way, one recursion level at a time
    \* ---- get_filesize
    gf                  \* the call of get_filesize and its result

rawVars == <<disk, readable, multipart, fdtable, pagesize, margin, opened,
             file_list, raw_filesize, current_file_name, current_fd, it, trav, ret>>

factoryVars == <<have_libewf, factory>>

moreVars == <<ewf, dir, opt, win, mt, rd, tp, rc, gf>>

not_ewf == <<rawVars, factoryVars, pcap, fb, dir, opt, win, mt, rd, tp, rc, gf>>

not_dir == <<rawVars, factoryVars, pcap, fb, ewf, opt, win, mt, rd, tp, rc, gf>>

not_opt == <<rawVars, factoryVars, pcap, fb, ewf, dir, win, mt, rd, tp, rc, gf>>

not_win == <<rawVars, factoryVars, pcap, fb, ewf, dir, opt, mt, rd, tp, rc, gf>>

not_mt == <<rawVars, factoryVars, pcap, fb, ewf, dir, opt, win, rd, tp, rc, gf>>

not_rd == <<rawVars, factoryVars, pcap, fb, ewf, dir, opt, win, mt, tp, rc, gf>>

not_tp == <<rawVars, factoryVars, pcap, fb, ewf, dir, opt, win, mt, rd, rc, gf>>

not_rc == <<rawVars, factoryVars, pcap, fb, ewf, dir, opt, win, mt, rd, tp, gf>>

not_gf == <<rawVars, factoryVars, pcap, fb, ewf, dir, opt, win, mt, rd, tp, rc>>

notRaw == <<factoryVars, pcap, fb, moreVars>>

notRawRd == <<factoryVars, pcap, fb, ewf, dir, opt, win, mt, tp, rc, gf>>

vars == <<rawVars, factoryVars, pcap, fb, moreVars>>

(* The element of a one-element set: The({F(x) : x \in {e}}) is F(e) with  *)
(* e computed once.                                                        *)
The(S) == CHOOSE x \in S : TRUE

Min(a, b) == IF a <= b THEN a ELSE b
Max(a, b) == IF a >= b THEN a ELSE b

Names == 1 .. NFiles
NoName == 0             \* the empty current_file_name
NoSbuf == [none |-> TRUE]
NoFactory == [op |-> "none"]
NoPcapWriter == [op |-> "none"]
NoScan == [op |-> "none"]

(* The parts of the state a specification does not exercise stay as they start. *)
IdleFactory == have_libewf = TRUE /\ factory = NoFactory
IdlePcap == pcap = NoPcapWriter
IdleScan == fb = NoScan
NoEwf == [op |-> "none"]
NoDir == [op |-> "none"]
NoWindirs == [op |-> "none"]
NoThreads == [op |-> "none"]
NoReaders == [op |-> "none"]
NoTemplate == [op |-> "none"]
NoRecursion == [op |-> "none"]
NoFilesize == [op |-> "none"]

(* The static initialisers of the opt_* variables (scan_windirs.cpp lines 34-40). *)
CLUSTERS_IN_1GiB == 2 * 1024 * 1024

DefaultOptions ==
    [opt_weird_file_size |-> 1024 * 1024 * 150,
     opt_weird_file_size2 |-> 1024 * 1024 * 512,
     opt_weird_cluster_count |-> 32 * CLUSTERS_IN_1GiB,
     opt_weird_cluster_count2 |-> 128 * CLUSTERS_IN_1GiB,
     opt_max_bits_in_attrib |-> 3,
     opt_max_weird_count |-> 2,
     opt_last_year |-> 2020]

IdleMoreExcept(keep) ==
    /\ (IF "ewf" \in keep THEN TRUE ELSE ewf = NoEwf)
    /\ (IF "dir" \in keep THEN TRUE ELSE dir = NoDir)
    /\ (IF "opt" \in keep THEN TRUE ELSE opt = DefaultOptions)
    /\ (IF "win" \in keep THEN TRUE ELSE win = NoWindirs)
    /\ (IF "mt" \in keep THEN TRUE ELSE mt = NoThreads)
    /\ (IF "rd" \in keep THEN TRUE ELSE rd = NoReaders)
    /\ (IF "tp" \in keep THEN TRUE ELSE tp = NoTemplate)
    /\ (IF "rc" \in keep THEN TRUE ELSE rc = NoRecursion)
    /\ (IF "gf" \in keep THEN TRUE ELSE gf = NoFilesize)

IdleMore == IdleMoreExcept({})

(***************************************************************************)
(* The bytes of the image.  Byte j of file f is the pair <<f, j>>, so a    *)
(* byte read from the wrong file or the wrong place is a different value.  *)
(***************************************************************************)
FileBytes(f, from, n) == [k \in 1 .. n |-> <<f, from + k - 1>>]

RECURSIVE Stream(_)
Stream(fl) ==
    IF fl = <<>> THEN <<>>
    ELSE FileBytes(Head(fl).name, 0, disk[Head(fl).name]) \o Stream(Tail(fl))

(***************************************************************************)
(* process_raw::add_file: push file_info(fname, raw_filesize, size) and    *)
(* add the size to raw_filesize.  Works on the pair (file_list, size).     *)
(***************************************************************************)
file_info(name, offset, length) == [name |-> name, offset |-> offset, length |-> length]

add_file_nosum(pr, fname) ==
    [file_list    |-> Append(pr.file_list, file_info(fname, pr.raw_filesize, disk[fname])),
     raw_filesize |-> pr.raw_filesize]

add_file(pr, fname) ==
    [file_list    |-> Append(pr.file_list, file_info(fname, pr.raw_filesize, disk[fname])),
     raw_filesize |-> pr.raw_filesize + disk[fname]]

(***************************************************************************)
(* process_raw::find_offset: the first segment, in list order, with        *)
(* offset <= pos < offset + length; 0 stands for the null pointer.         *)
(***************************************************************************)
find_offset(fl, pos) ==
    LET hits == {i \in 1 .. Len(fl) : fl[i].offset <= pos /\ pos < fl[i].offset + fl[i].length}
    IN IF hits = {} THEN 0 ELSE CHOOSE i \in hits : \A j \in hits : i <= j

(***************************************************************************)
(* process_raw::open: the primary file, then, for a multipart name, the    *)
(* probes num, num+1, ... until access() refuses one.  The primary file is *)
(* name 1 and the probes are the names 2, 3, ...                           *)
(***************************************************************************)
RECURSIVE probe(_, _)
probe(pr, num) ==
    IF num \notin Names \/ num \notin readable THEN pr
    ELSE probe(add_file(pr, num), num + 1)

process_raw_open ==
    LET first == add_file([file_list |-> <<>>, raw_filesize |-> 0], 1)
    IN IF multipart THEN probe(first, 2) ELSE first

(***************************************************************************)
(* The descriptor cache of process_raw::pread (lines 664-687).  cache is   *)
(* [current_file_name, current_fd, fdtable].  ::open gives the lowest free *)
(* descriptor from 3 up, or -1 for a file in `bad`.                        *)
(***************************************************************************)
cache_of(name, fd, fdt) == [current_file_name |-> name, current_fd |-> fd, fdtable |-> fdt]

sys_close(fdt, fd) == [d \in DOMAIN fdt \ {fd} |-> fdt[d]]

sys_open(fdt, name, bad) ==
    IF name \in bad THEN [fd |-> -1, fdtable |-> fdt]
    ELSE LET fd == CHOOSE d \in 3 .. 3 + Cardinality(DOMAIN fdt) :
                       d \notin DOMAIN fdt /\ \A e \in 3 .. d - 1 : e \in DOMAIN fdt
         IN [fd |-> fd, fdtable |-> fdt @@ (fd :> name)]

reopen(cache, name, bad) ==
    LET closed == IF cache.current_fd >= 0
                  THEN sys_close(cache.fdtable, cache.current_fd)
                  ELSE cache.fdtable
        o == sys_open(closed, name, bad)
    IN cache_of(name, o.fd, o.fdtable)

(***************************************************************************)
(* ::pread64(fd, buf, bytes, off) on a file of the recorded size: -1 on a  *)
(* descriptor that is not open, else at most `bytes` bytes up to the end   *)
(* of the file.  cap is what this one call is cut short to.                *)
(***************************************************************************)
pread64(cache, bytes, off, cap) ==
    IF cache.current_fd \notin DOMAIN cache.fdtable THEN -1
    ELSE Min(Min(bytes, cap), Max(0, disk[cache.fdtable[cache.current_fd]] - off))

(***************************************************************************)
(* process_raw::pread (lines 655-724).  io lists the cuts of the first     *)
(* system calls of this call; later calls are not cut.  The result is      *)
(* [status, n, data, cache]: status "ok" with the return value n and the   *)
(* bytes data stored from buf[0] on, or the exception thrown.              *)
(***************************************************************************)
returned(cache, n, data) == [status |-> "ok", n |-> n, data |-> data, cache |-> cache]
thrown(cache, what) == [status |-> what, n |-> 0, data |-> <<>>, cache |-> cache]

pread_norecurse(cache, bytes, offset, io, bad) ==
    LET fi == find_offset(file_list, offset) IN
    IF fi = 0 THEN returned(cache, 0, <<>>)
    ELSE
      LET f == file_list[fi]
          c1 == IF f.name # cache.current_file_name THEN reopen(cache, f.name, bad) ELSE cache
          n == pread64(c1, bytes, offset - f.offset, IF io = <<>> THEN bytes ELSE Head(io))
      IN IF f.name # cache.current_file_name /\ c1.current_fd <= 0 THEN thrown(c1, "NoSuchFile")
         ELSE IF n < 0 THEN thrown(c1, "NoSuchFile")
         ELSE returned(c1, n, FileBytes(c1.fdtable[c1.current_fd], offset - f.offset, n))

RECURSIVE pread(_, _, _, _, _)
pread(cache, bytes, offset, io, bad) ==
    LET fi == find_offset(file_list, offset) IN
    IF fi = 0 THEN returned(cache, 0, <<>>)                     \* nothing to read
    ELSE
      LET f == file_list[fi]
          c1 == IF f.name # cache.current_file_name THEN reopen(cache, f.name, bad) ELSE cache
          bytes_read == pread64(c1, bytes, offset - f.offset,
                                IF io = <<>> THEN bytes ELSE Head(io))
          got == FileBytes(c1.fdtable[c1.current_fd], offset - f.offset, bytes_read)
      IN IF f.name # cache.current_file_name /\ c1.current_fd <= 0
         THEN thrown(c1, "NoSuchFile")                          \* cannot ::open
         ELSE IF bytes_read < 0 THEN thrown(c1, "NoSuchFile")   \* READ LESS THAN 0 BYTES
         ELSE IF bytes_read = bytes THEN returned(c1, bytes_read, got)
         ELSE The({IF r2.status # "ok" THEN r2
                   ELSE IF r2.n < 0 THEN returned(r2.cache, -1, got \o r2.data)
                   ELSE IF bytes_read = 0 THEN returned(r2.cache, 0, got \o r2.data)   \* kind of odd
                   ELSE returned(r2.cache, bytes_read + r2.n, got \o r2.data)
                   : r2 \in {pread(c1, bytes - bytes_read, offset + bytes_read,
                                  IF io = <<>> THEN <<>> ELSE Tail(io), bad)}})

(***************************************************************************)
(* The iterator: begin, increment_iterator, seek_block, max_blocks.        *)
(***************************************************************************)
iterator(raw_offset, eof) == [raw_offset |-> raw_offset, eof |-> eof]

begin == iterator(0, FALSE)

end == iterator(raw_filesize, TRUE)

increment_iterator_nosat(i) ==
    [i EXCEPT !.raw_offset = i.raw_offset + pagesize]

increment_iterator_margin(i) ==
    LET o == i.raw_offset + pagesize + margin
    IN [i EXCEPT !.raw_offset = IF o > raw_filesize THEN raw_filesize ELSE o]

increment_iterator(i) ==
    LET o == i.raw_offset + pagesize
    IN [i EXCEPT !.raw_offset = IF o > raw_filesize THEN raw_filesize ELSE o]

max_blocks == (raw_filesize + pagesize - 1) \div pagesize

seek_block_min(i, block) ==
    [block |-> block, it |-> [i EXCEPT !.raw_offset = Min(block * pagesize, raw_filesize)]]

seek_block(i, block) ==
    LET b == IF block * pagesize > raw_filesize THEN raw_filesize \div pagesize ELSE block
    IN [block |-> b, it |-> [i EXCEPT !.raw_offset = b * pagesize]]

(***************************************************************************)
(* process_raw::sbuf_alloc (lines 770-795).  The result is [status, sbuf,  *)
(* it, cache, count, pread, count_read, freed]: status "ok" with the       *)
(* PageBuffer, or the exception thrown; pread is "ok" when pread returned  *)
(* and count_read is what it returned; freed tells whether the allocated   *)
(* sbuf was deleted before the exception left the function.                *)
(***************************************************************************)
sbuf_malloc(pos0, count, this_pagesize) ==
    [pos0 |-> pos0, bufsize |-> count, pagesize |-> this_pagesize, buf |-> <<>>]

sbuf_alloc_ewf(i, cache, io, bad) ==
    LET count0 == pagesize + margin
        count == IF raw_filesize < i.raw_offset + count0 THEN raw_filesize - i.raw_offset ELSE count0
        this_pagesize == IF pagesize > count THEN count ELSE pagesize
        sbuf == sbuf_malloc(i.raw_offset, count, this_pagesize)
        res(r, status, sb, i2, freed) ==
            [status |-> status, sbuf |-> sb, it |-> i2, cache |-> r.cache,
             count |-> count, pread |-> r.status, count_read |-> r.n, freed |-> freed]
    IN The({IF r.status # "ok" THEN res(r, r.status, NoSbuf, i, FALSE)
            ELSE IF r.n < 0 THEN res(r, "read_error", NoSbuf, i, TRUE)
            ELSE IF count = 0 THEN res(r, "EndOfImage", NoSbuf, [i EXCEPT !.eof = TRUE], TRUE)
            ELSE res(r, "ok", [sbuf EXCEPT !.buf = r.data], i, FALSE)
            : r \in {pread(cache, count, i.raw_offset, io, bad)}})

sbuf_alloc(i, cache, io, bad) ==
    LET count0 == pagesize + margin
        count == IF raw_filesize < i.raw_offset + count0 THEN raw_filesize - i.raw_offset ELSE count0
        this_pagesize == IF pagesize > count THEN count ELSE pagesize
        sbuf == sbuf_malloc(i.raw_offset, count, this_pagesize)
        res(r, status, sb, i2, freed) ==
            [status |-> status, sbuf |-> sb, it |-> i2, cache |-> r.cache,
             count |-> count, pread |-> r.status, count_read |-> r.n, freed |-> freed]
    IN The({IF r.status # "ok" THEN res(r, r.status, NoSbuf, i, FALSE)   \* pread threw: sbuf is not deleted
            ELSE IF r.n = 0 THEN res(r, "EndOfImage", NoSbuf, [i EXCEPT !.eof = TRUE], TRUE)
            ELSE IF r.n < 0 THEN res(r, "read_error", NoSbuf, i, TRUE)
            ELSE res(r, "ok", [sbuf EXCEPT !.buf = r.data], i, FALSE)
            : r \in {pread(cache, count, i.raw_offset, io, bad)}})                  \* do the read

(***************************************************************************)
(* The state machine of one process_raw object.                            *)
(***************************************************************************)
EmptyFdTable == [d \in {} |-> NoName]
NoTraversal == [ok |-> FALSE, need |-> FALSE, pages |-> <<>>]
IoCuts == UNION {[1 .. n -> 0 .. MaxCut] : n \in 0 .. MaxIo}
BadOpens == {{}, Names}
cache == cache_of(current_file_name, current_fd, fdtable)

InitObject ==
    /\ fdtable = EmptyFdTable
    /\ opened = FALSE
    /\ file_list = <<>>
    /\ raw_filesize = 0
    /\ current_file_name = NoName
    /\ current_fd = -1
    /\ it = iterator(0, FALSE)
    /\ trav = NoTraversal
    /\ ret = [op |-> "process_raw"]

(* The files on disk: file f holds (f + r) mod (MaxSegLen + 1) bytes.       *)
Disks == {[f \in Names |-> (f + r) % (MaxSegLen + 1)] : r \in 0 .. MaxSegLen}

InitRaw ==
    /\ IdleFactory /\ IdlePcap /\ IdleScan /\ IdleMore
    /\ disk \in Disks
    /\ multipart \in BOOLEAN
    /\ readable \in {1 .. k : k \in (IF multipart THEN Names ELSE {NFiles})}
    /\ pagesize = 1
    /\ margin = 0
    /\ InitObject

InitIter ==
    /\ IdleFactory /\ IdlePcap /\ IdleScan /\ IdleMore
    /\ disk \in Disks
    /\ multipart \in BOOLEAN
    /\ readable = Names
    /\ pagesize \in 1 .. MaxPagesize
    /\ margin \in 0 .. MaxMargin
    /\ InitObject

IdleRaw ==
    /\ disk = [f \in Names |-> 1]
    /\ multipart = FALSE
    /\ readable = Names
    /\ pagesize = 1
    /\ margin = 0
    /\ InitObject

Open ==
    /\ ~opened
    /\ opened' = TRUE
    /\ \E pr \in {process_raw_open} :
          /\ file_list' = pr.file_list
          /\ raw_filesize' = pr.raw_filesize
    /\ ret' = [op |-> "open"]
    /\ UNCHANGED <<notRaw, disk, readable, multipart, fdtable, pagesize, margin,
                   current_file_name, current_fd, it, trav>>

AddFile(fname) ==
    /\ opened
    /\ Len(file_list) < MaxSegs
    /\ \E pr \in {add_file([file_list |-> file_list, raw_filesize |-> raw_filesize], fname)} :
          /\ file_list' = pr.file_list
          /\ raw_filesize' = pr.raw_filesize
    /\ ret' = [op |-> "add_file"]
    /\ UNCHANGED <<notRaw, disk, readable, multipart, fdtable, pagesize, margin, opened,
                   current_file_name, current_fd, it, trav>>

Pread(bytes, offset, io, bad) ==
    /\ opened
    /\ \E r \in {pread(cache, bytes, offset, io, bad)} :
          /\ current_file_name' = r.cache.current_file_name
          /\ current_fd' = r.cache.current_fd
          /\ fdtable' = r.cache.fdtable
          /\ ret' = [op |-> "pread", bytes |-> bytes, offset |-> offset, io |-> io, bad |-> bad,
                     status |-> r.status, n |-> r.n, data |-> r.data]
    /\ UNCHANGED <<notRaw, disk, readable, multipart, pagesize, margin, opened,
                   file_list, raw_filesize, it, trav>>

Begin ==
    /\ opened
    /\ it' = begin
    /\ trav' = [ok |-> TRUE, need |-> TRUE, pages |-> <<>>]
    /\ ret' = [op |-> "begin"]
    /\ UNCHANGED <<notRaw, disk, readable, multipart, fdtable, pagesize, margin, opened,
                   file_list, raw_filesize, current_file_name, current_fd>>

IncrementIterator ==
    /\ opened
    /\ it' = increment_iterator(it)
    /\ trav' = IF trav.ok /\ ~trav.need THEN [trav EXCEPT !.need = TRUE] ELSE NoTraversal
    /\ ret' = [op |-> "increment_iterator", from |-> it.raw_offset]
    /\ UNCHANGED <<notRaw, disk, readable, multipart, fdtable, pagesize, margin, opened,
                   file_list, raw_filesize, current_file_name, current_fd>>

SbufAlloc(io, bad) ==
    /\ opened
    /\ \E r \in {sbuf_alloc(it, cache, io, bad)} :
          /\ it' = r.it
          /\ current_file_name' = r.cache.current_file_name
          /\ current_fd' = r.cache.current_fd
          /\ fdtable' = r.cache.fdtable
          /\ trav' = IF trav.ok /\ trav.need /\ r.status = "ok"
                     THEN [ok |-> TRUE, need |-> FALSE, pages |-> Append(trav.pages, r.sbuf)]
                     ELSE NoTraversal
          /\ ret' = [op |-> "sbuf_alloc", raw_offset |-> it.raw_offset, io |-> io,
                     bad |-> bad, status |-> r.status, sbuf |-> r.sbuf, count |-> r.count,
                     pread |-> r.pread, count_read |-> r.count_read, freed |-> r.freed]
    /\ UNCHANGED <<notRaw, disk, readable, multipart, pagesize, margin, opened,
                   file_list, raw_filesize>>

SeekBlock(block) ==
    /\ opened
    /\ \E r \in {seek_block(it, block)} :
          /\ it' = r.it
          /\ ret' = [op |-> "seek_block", block |-> block, result |-> r.block]
    /\ trav' = NoTraversal
    /\ UNCHANGED <<notRaw, disk, readable, multipart, fdtable, pagesize, margin, opened,
                   file_list, raw_filesize, current_file_name, current_fd>>

NextRaw ==
    \/ Open
    \/ \E fname \in Names : AddFile(fname)
    \/ \E bytes \in 0 .. MaxBytes, offset \in 0 .. raw_filesize + 1, io \in [1 .. 1 -> 0 .. MaxCut] \cup {<<>>} :
          Pread(bytes, offset, io, {})

NextIter ==
    \/ Open
    \/ Begin
    \/ IncrementIterator
    \/ \E io \in IoCuts, bad \in BadOpens : SbufAlloc(io, bad)
    \/ \E block \in 0 .. MaxBlock : SeekBlock(block)

SpecRaw == InitRaw /\ [][NextRaw]_vars

SpecIter == InitIter /\ [][NextIter]_vars

(* pread calls during some of which ::open fails for one of the files. *)
FailingOpens == {{}} \cup {{f} : f \in Names}

NextCache ==
    \/ Open
    \/ \E bytes \in 1 .. MaxBytes, offset \in 0 .. raw_filesize, bad \in FailingOpens :
          Pread(bytes, offset, <<>>, bad)

SpecCache == InitRaw /\ [][NextCache]_vars

(***************************************************************************)
(* Claims about process_raw.                                               *)
(***************************************************************************)
NoZeroRead(io) == \A k \in DOMAIN io : io[k] >= 1

SegmentOf(o) == find_offset(file_list, o)

\* C1: when no system call reads zero bytes from a segment (the files have
\* their recorded lengths), pread(dst, n, o) at an offset o < size() returns
\* min(n, size() - o) bytes, never more than n, and dst holds the bytes
\* [o, o + returned) of the concatenated segment stream, also across one or
\* several segment boundaries.
C1_PreadReturnsStream ==
    (ret.op = "pread" /\ NoZeroRead(ret.io) /\ ret.offset < raw_filesize) =>
        /\ ret.status = "ok"
        /\ ret.n = Min(ret.bytes, raw_filesize - ret.offset)
        /\ ret.n <= ret.bytes
        /\ ret.data = SubSeq(Stream(file_list), ret.offset + 1, ret.offset + ret.n)

\* C1 witness: a read that starts in one segment, runs through a whole
\* second one and ends in a third, with its first system call cut short.
C1_Witness ==
    /\ ret.op = "pread" /\ ret.status = "ok" /\ ret.io = <<1>>
    /\ ret.n = ret.bytes /\ ret.n >= 3
    /\ SegmentOf(ret.offset + ret.n - 1) >= SegmentOf(ret.offset) + 2
    /\ \A i \in 1 .. Len(file_list) : file_list[i].length > 0
    /\ current_file_name = file_list[SegmentOf(ret.offset + ret.n - 1)].name
    /\ ret.data = SubSeq(Stream(file_list), ret.offset + 1, ret.offset + ret.n)

\* C27 as stated: after any sequence of pread calls, failed opens included,
\* at most one descriptor is open and current_file_name names the file the
\* open descriptor refers to; a failed open leaves no stale association, so
\* a pread for which every ::open would succeed does not fail.
C27_CacheNamesOpenDescriptor ==
    opened =>
        /\ Cardinality(DOMAIN fdtable) <= 1
        /\ current_fd >= 0 => (DOMAIN fdtable = {current_fd} /\ fdtable[current_fd] = current_file_name)
        /\ current_fd < 0 => (fdtable = EmptyFdTable /\ current_file_name = NoName)
        /\ (ret.op = "pread" /\ ret.bad = {}) => ret.status = "ok"

\* What does hold: at most one descriptor is open, and when current_fd is a
\* descriptor it is the open one and refers to the file current_file_name.
C27_OneDescriptorOpen ==
    opened =>
        /\ Cardinality(DOMAIN fdtable) <= 1
        /\ current_fd >= 0 => (DOMAIN fdtable = {current_fd} /\ fdtable[current_fd] = current_file_name)
        /\ current_fd < 0 => fdtable = EmptyFdTable

\* a pread that fails although its ::open would succeed: the name of the
\* segment was cached by an earlier failed open, so no ::open is attempted
C27_StaleName ==
    /\ ret.op = "pread" /\ ret.bad = {} /\ ret.status = "NoSuchFile"
    /\ current_fd < 0 /\ current_file_name \in Names

RECURSIVE SumLength(_)
SumLength(fl) == IF fl = <<>> THEN 0 ELSE Head(fl).length + SumLength(Tail(fl))

Holds(i, o) == file_list[i].offset <= o /\ o < file_list[i].offset + file_list[i].length

\* C3: after open() and any add_file calls the segment list is ordered by
\* offset, contiguous and non-overlapping, image_size() is the sum of the
\* segment lengths, find_offset(o) is the one segment holding o for every
\* o < size(), and no segment for o >= size().
C3_SegmentList ==
    opened =>
        /\ file_list # <<>>
        /\ file_list[1].offset = 0
        /\ \A i \in 1 .. Len(file_list) - 1 :
              /\ file_list[i].offset <= file_list[i + 1].offset
              /\ file_list[i + 1].offset = file_list[i].offset + file_list[i].length
        /\ raw_filesize = SumLength(file_list)
        /\ \A o \in 0 .. raw_filesize - 1 :
              /\ SegmentOf(o) \in 1 .. Len(file_list)
              /\ \A i \in 1 .. Len(file_list) : Holds(i, o) <=> i = SegmentOf(o)
        /\ \A o \in raw_filesize .. raw_filesize + 2 : SegmentOf(o) = 0

\* C3 witness: three segments, the middle one empty, the last added by add_file.
C3_Witness ==
    /\ opened /\ ret.op = "add_file" /\ Len(file_list) = 3
    /\ file_list[1].length > 0 /\ file_list[2].length = 0 /\ file_list[3].length > 0
    /\ SegmentOf(file_list[3].offset) = 3

\* C2: a traversal from begin() that allocates one PageBuffer per step and
\* increments until raw_offset = size() puts every byte offset b < size()
\* in the [0, pagesize) region of exactly one step's PageBuffer.
InPage(sb, b) == sb.pos0 <= b /\ b < sb.pos0 + sb.pagesize

TraversalDone == trav.ok /\ trav.need /\ it.raw_offset = raw_filesize

C2_PagesPartition ==
    TraversalDone =>
        \A b \in 0 .. raw_filesize - 1 :
            Cardinality({k \in DOMAIN trav.pages : InPage(trav.pages[k], b)}) = 1

\* C2 witness: a finished traversal of several pages with a margin, whose
\* last page is shorter than pagesize.
C2_Witness ==
    /\ TraversalDone /\ margin > 0 /\ Len(trav.pages) >= 3
    /\ trav.pages[1].bufsize = pagesize + margin
    /\ trav.pages[Len(trav.pages)].pagesize < pagesize

\* C8 (as stated): sbuf_alloc fails with ReadError whenever pread returns
\* more than zero but fewer bytes than the clipped request, and never
\* returns a PageBuffer whose bufsize exceeds the number of bytes read.
C8_ShortReadIsReadError ==
    (ret.op = "sbuf_alloc" /\ ret.pread = "ok") =>
        /\ (0 < ret.count_read /\ ret.count_read < ret.count) => ret.status = "read_error"
        /\ ret.status = "ok" => ret.sbuf.bufsize <= Len(ret.sbuf.buf)

\* C9: sbuf_alloc fails with EndOfImage exactly when the read returns zero
\* bytes; then the iterator is marked eof and the PageBuffer is neither
\* returned nor leaked; and with every segment readable (no open fails, no
\* read returns zero bytes) EndOfImage is not raised at raw_offset < size().
C9_EndOfImage ==
    ret.op = "sbuf_alloc" =>
        /\ ret.status = "EndOfImage" <=> (ret.pread = "ok" /\ ret.count_read = 0)
        /\ ret.status = "EndOfImage" => (it.eof /\ ret.sbuf = NoSbuf /\ ret.freed)
        /\ (ret.status = "EndOfImage" /\ NoZeroRead(ret.io)) => ret.raw_offset >= raw_filesize

\* C9 witness: EndOfImage at the end of a non-empty image.
C9_Witness ==
    /\ ret.op = "sbuf_alloc" /\ ret.status = "EndOfImage"
    /\ raw_filesize > 0 /\ ret.raw_offset = raw_filesize /\ it.eof /\ ret.freed

\* C10 (as stated): seek_block(b) sets raw_offset to min(b * pagesize, size()).
C10_SeekBlockMin ==
    ret.op = "seek_block" => it.raw_offset = Min(ret.block * pagesize, raw_filesize)

\* C10 (amended): seek_block(b) sets raw_offset to the largest multiple of
\* pagesize that is at most min(b * pagesize, size()): b * pagesize when that
\* is within the image, else the start of the last, possibly partial, block;
\* it returns that block's number.
C10_SeekBlockAligned ==
    ret.op = "seek_block" =>
        LET target == Min(ret.block * pagesize, raw_filesize)
        IN /\ it.raw_offset % pagesize = 0
           /\ it.raw_offset <= target
           /\ target < it.raw_offset + pagesize
           /\ ret.result * pagesize = it.raw_offset

\* C10 witness: a seek beyond the last block of an image whose size is not a
\* multiple of pagesize.
C10_Witness ==
    /\ ret.op = "seek_block" /\ ret.block * pagesize > raw_filesize
    /\ raw_filesize % pagesize # 0 /\ it.raw_offset < raw_filesize

(***************************************************************************)
(* image_process::open, the factory (lines 915-979).  A path is a sequence *)
(* of characters; a directory is the sequence of its top-level file names  *)
(* in the order directory_iterator yields them.                            *)
(***************************************************************************)
Chars == {".", "E", "e", "0", "1"}

Paths == UNION {[1 .. n -> Chars] : n \in 1 .. MaxPathLen}

DOT_E01 == <<".", "E", "0", "1">>
DOT_000 == <<".", "0", "0", "0">>
DOT_001 == <<".", "0", "0", "1">>
DOT_E01_DOT == <<".", "E", "0", "1", ".">>

(* The file names a directory may hold. *)
DirNames == {<<"e">> \o DOT_E01, <<"e">> \o DOT_000, <<"e">> \o DOT_001, DOT_E01,
             <<"e", ".", "e", "0", "1">>, <<"E", "0", "1">>, <<"e", ".", "1">>}

Directories == {d \in UNION {[1 .. n -> DirNames] : n \in 0 .. MaxEntries} :
                  \A i, j \in DOMAIN d : i # j => d[i] # d[j]}

tolower(c) == IF c = "E" THEN "e" ELSE c

(* std::string::rfind(c): the last position of c, 0 for npos. *)
rfind(str, c) ==
    LET at == {i \in DOMAIN str : str[i] = c}
    IN IF at = {} THEN 0 ELSE CHOOSE i \in at : \A j \in at : j <= i

(* std::string::find(needle) != npos *)
contains(str, needle) ==
    \E i \in 1 .. Len(str) - Len(needle) + 1 : SubSeq(str, i, i + Len(needle) - 1) = needle

(* image_process::filename_extension (lines 158-165) *)
filename_extension(fn) ==
    LET dotpos == rfind(fn, ".")
    IN IF dotpos = 0 THEN <<>> ELSE SubSeq(fn, dotpos + 1, Len(fn))

(* std::filesystem::path::extension() of a file name: from its last period *)
(* on, and empty for ".", ".." and a name whose only period is its first   *)
(* character.                                                              *)
path_extension(name) ==
    LET dotpos == rfind(name, ".")
    IN IF name = <<".">> \/ name = <<".", ".">> \/ dotpos <= 1 THEN <<>>
       ELSE SubSeq(name, dotpos, Len(name))

is_image_part(name) ==
    path_extension(name) \in {DOT_E01, DOT_000, DOT_001}

(* The first entry, in iteration order, that is a part of a segmented image; 0 for none. *)
first_image_part(entries) ==
    LET at == {i \in DOMAIN entries : is_image_part(entries[i])}
    IN IF at = {} THEN 0 ELSE CHOOSE i \in at : \A j \in at : i <= j

(***************************************************************************)
(* The outcome of image_process::open(fn, opt_recurse): status is "ok" or  *)
(* the exception that leaves the function, what is the exception's text,   *)
(* cerr the file the diagnostic names (<<>> for none), constructed the     *)
(* sources constructed in order, source the source returned.  st is what   *)
(* stat() finds at fn, entries the directory at fn, ip_open what the       *)
(* constructed source's open() does: "ok" or the exception it throws.      *)
(***************************************************************************)
outcome(status, what, cerr, constructed, source) ==
    [status |-> status, what |-> what, cerr |-> cerr,
     constructed |-> constructed, source |-> source]

try_open(fn, cerr, kind, ip_open) ==
    IF kind # "process_ewf" \/ ip_open = "ok"
    THEN outcome("ok", <<>>, cerr, <<kind>>, kind)      \* process_raw::open and process_dir::open return 0
    ELSE outcome(ip_open, fn, cerr, <<kind>>, "none")   \* process_ewf::open threw

image_process_open_invalidinput(fn, opt_recurse, st, entries, ip_open) ==
    LET ext == [i \in DOMAIN filename_extension(fn) |-> tolower(filename_extension(fn)[i])]
        part == first_image_part(entries)
    IN IF st = "missing" THEN outcome("NoSuchFile", fn, <<>>, <<>>, "none")
       ELSE IF st = "dir" THEN
            IF ~opt_recurse THEN outcome("NoSuchFile", fn, <<>>, <<>>, "none")
            ELSE IF part # 0 THEN outcome("InvalidInput", entries[part], entries[part], <<>>, "none")
            ELSE try_open(fn, <<>>, "process_dir", ip_open)
       ELSE IF ext = <<"e", "0", "1">> \/ contains(fn, DOT_E01_DOT) THEN
            IF have_libewf THEN try_open(fn, <<>>, "process_ewf", ip_open)
            ELSE outcome("NoSupport", <<>>, <<>>, <<>>, "none")
       ELSE try_open(fn, <<>>, "process_raw", ip_open)

image_process_open_fallback(fn, opt_recurse, st, entries, ip_open) ==
    LET ext == [i \in DOMAIN filename_extension(fn) |-> tolower(filename_extension(fn)[i])]
        part == first_image_part(entries)
    IN IF st = "missing" THEN outcome("NoSuchFile", fn, <<>>, <<>>, "none")
       ELSE IF st = "dir" THEN
            IF ~opt_recurse THEN outcome("NoSuchFile", fn, <<>>, <<>>, "none")
            ELSE IF part # 0 THEN outcome("NoSuchFile", fn, entries[part], <<>>, "none")
            ELSE try_open(fn, <<>>, "process_dir", ip_open)
       ELSE IF (ext = <<"e", "0", "1">> \/ contains(fn, DOT_E01_DOT)) /\ have_libewf
            THEN try_open(fn, <<>>, "process_ewf", ip_open)
       ELSE try_open(fn, <<>>, "process_raw", ip_open)

image_process_open(fn, opt_recurse, st, entries, ip_open) ==
    LET ext == [i \in DOMAIN filename_extension(fn) |-> tolower(filename_extension(fn)[i])]
        part == first_image_part(entries)
    IN IF st = "missing" THEN outcome("NoSuchFile", fn, <<>>, <<>>, "none")
       ELSE IF st = "dir" THEN
            IF ~opt_recurse                                 \* a directory but -R not set
            THEN outcome("NoSuchFile", fn, <<>>, <<>>, "none")
            ELSE IF part # 0                                \* "error: file <p> is in directory <fn>"
            THEN outcome("NoSuchFile", fn, entries[part], <<>>, "none")
            ELSE try_open(fn, <<>>, "process_dir", ip_open)
       ELSE IF ext = <<"e", "0", "1">> \/ contains(fn, DOT_E01_DOT) THEN
            IF have_libewf THEN try_open(fn, <<>>, "process_ewf", ip_open)
            ELSE outcome("NoSupport", <<>>, <<>>, <<>>, "none")
       ELSE try_open(fn, <<>>, "process_raw", ip_open)

InitFactory ==
    /\ have_libewf \in BOOLEAN
    /\ factory = NoFactory
    /\ IdleRaw /\ IdlePcap /\ IdleScan /\ IdleMore

ImageProcessOpen(fn, opt_recurse, st, entries, ip_open) ==
    /\ factory = NoFactory
    /\ factory' = [op |-> "open", fn |-> fn, opt_recurse |-> opt_recurse, st |-> st,
                   entries |-> entries,
                   out |-> image_process_open(fn, opt_recurse, st, entries, ip_open)]
    /\ UNCHANGED <<rawVars, have_libewf, pcap, fb, moreVars>>

IpOpens == {"ok", "NoSuchFile", "invalid_argument"}

NextFactory ==
    \/ /\ factory = NoFactory
       /\ \E fn \in Paths, opt_recurse \in BOOLEAN :
             ImageProcessOpen(fn, opt_recurse, "missing", <<>>, "ok")
    \/ /\ factory = NoFactory
       /\ \E fn \in Paths, opt_recurse \in BOOLEAN, ip_open \in IpOpens :
             ImageProcessOpen(fn, opt_recurse, "file", <<>>, ip_open)
    \/ /\ factory = NoFactory
       /\ \E fn \in {<<"e">>, DOT_E01, <<"e">> \o DOT_001}, opt_recurse \in BOOLEAN, entries \in Directories :
             ImageProcessOpen(fn, opt_recurse, "dir", entries, "ok")

SpecFactory == InitFactory /\ [][NextFactory]_vars

(***************************************************************************)
(* Claims about image_process::open.                                       *)
(***************************************************************************)
HasImagePart(entries) ==
    \E i \in DOMAIN entries :
        LET name == entries[i]
        IN /\ Len(name) >= 5
           /\ SubSeq(name, Len(name) - 3, Len(name)) \in {DOT_E01, DOT_000, DOT_001}

IsE01Path(fn) ==
    \/ /\ Len(fn) >= 4
       /\ fn[Len(fn) - 3] = "."
       /\ fn[Len(fn) - 2] \in {"e", "E"} /\ fn[Len(fn) - 1] = "0" /\ fn[Len(fn)] = "1"
    \/ \E i \in 1 .. Len(fn) - 4 :
          /\ fn[i] = "." /\ fn[i + 1] = "E" /\ fn[i + 2] = "0" /\ fn[i + 3] = "1" /\ fn[i + 4] = "."

\* C7: for an existing non-directory path the E01 source is selected exactly
\* when the lowercased extension is e01 or the path contains ".E01."; every
\* other path gets a Raw source; without E01 support an E01 path fails with
\* Unsupported (NoSupport) and no source, Raw included, is constructed.
C7_SourceSelection ==
    (factory.op = "open" /\ factory.st = "file") =>
        /\ (IsE01Path(factory.fn) /\ have_libewf) => factory.out.constructed = <<"process_ewf">>
        /\ (IsE01Path(factory.fn) /\ ~have_libewf) =>
              /\ factory.out.status = "NoSupport"
              /\ factory.out.constructed = <<>>
              /\ factory.out.source = "none"
        /\ ~IsE01Path(factory.fn) =>
              /\ factory.out.status = "ok"
              /\ factory.out.constructed = <<"process_raw">>
              /\ factory.out.source = "process_raw"

\* C7 witness: a path with an upper-case .E01 extension after an earlier
\* period, in a build without E01 support.
C7_Witness ==
    /\ factory.op = "open" /\ factory.st = "file" /\ ~have_libewf
    /\ factory.fn = <<".", ".", "E", "0", "1">>
    /\ factory.out.status = "NoSupport"

(***************************************************************************)
(* pcap_writer (lines 998-1071).  The output file is the sequence of the   *)
(* items written to it: 16- and 32-bit fields, the forged Ethernet header  *)
(* and the bytes copied from the source buffer.  A 32-bit field is kept as *)
(* its two 16-bit halves, high half first; every length of the model is    *)
(* below 2^31, so uint32_t arithmetic does not wrap.                       *)
(***************************************************************************)
PCAP_MAX_PKT_LEN == 65535
ETHER_HEAD_LEN == 14
TCPDUMP_HEADER_SIZE == 24
DLT_EN10MB == 1

pcap_write2(val) == [kind |-> "u16", size |-> 2, value |-> val % 65536]

pcap_write4_halves(high, low) == [kind |-> "u32", size |-> 4, value |-> <<high, low>>]

pcap_write4(val) == pcap_write4_halves((val \div 65536) % 65536, val % 65536)

pcap_write_bytes(val, num) == [kind |-> "bytes", size |-> num, value |-> val]

(* sbuf_t::write(f, loc, len): the bytes [loc, loc + len) of the buffer,    *)
(* clipped to its end.                                                     *)
sbuf_write(bufsize, loc, len) ==
    LET n == IF loc >= bufsize THEN 0
             ELSE IF loc + len > bufsize THEN bufsize - loc ELSE len
    IN [kind |-> "sbuf", size |-> n, value |-> loc]

pcap_hdr(seconds, useconds, cap_len, pkt_len) ==
    [seconds |-> seconds, useconds |-> useconds, cap_len |-> cap_len, pkt_len |-> pkt_len]

(* The global header written when the file is created (lines 1031-1038). *)
global_header ==
    <<pcap_write4_halves(41394, 50132),     \* 0xa1b2c3d4
      pcap_write2(2), pcap_write2(4), pcap_write4(0), pcap_write4(0),
      pcap_write4(PCAP_MAX_PKT_LEN), pcap_write4(DLT_EN10MB)>>

(* forge_header with the two bytes of the type in the order of the host *)
forge_header_le(frame_type) ==
    [k \in 1 .. ETHER_HEAD_LEN |->
        IF k = ETHER_HEAD_LEN - 1 THEN frame_type % 256
        ELSE IF k = ETHER_HEAD_LEN THEN (frame_type \div 256) % 256
        ELSE 0]

forge_header(frame_type) ==
    [k \in 1 .. ETHER_HEAD_LEN |->
        IF k = ETHER_HEAD_LEN - 1 THEN (frame_type \div 256) % 256
        ELSE IF k = ETHER_HEAD_LEN THEN frame_type % 256
        ELSE 0]

(* pcap_writer::pcap_writepkt, under the lock on Mfcap from entry to return. *)
pcap_writepkt(w, h, bufsize, pos, add_frame, frame_type, fopen_ok) ==
    IF ~w.fcap /\ ~fopen_ok
    THEN [w EXCEPT !.op = "pcap_writepkt", !.status = "runtime_error"]   \* cannot open
    ELSE
      LET start == IF w.fcap THEN w.file ELSE global_header             \* fopen "wb"
          add_frame_and_safe == add_frame /\ h.cap_len + ETHER_HEAD_LEN <= PCAP_MAX_PKT_LEN
          forged_header_len == IF add_frame_and_safe THEN ETHER_HEAD_LEN ELSE 0
          record == <<pcap_write4(h.seconds), pcap_write4(h.useconds),
                      pcap_write4(h.cap_len + forged_header_len),
                      pcap_write4(h.pkt_len + forged_header_len)>>
          forged == IF add_frame_and_safe
                    THEN <<pcap_write_bytes(forge_header(frame_type), ETHER_HEAD_LEN)>>
                    ELSE <<>>
      IN [w EXCEPT !.op = "pcap_writepkt", !.status = "ok", !.fcap = TRUE,
                   !.file = start \o record \o forged \o <<sbuf_write(bufsize, pos, h.cap_len)>>,
                   !.written = w.written + 1]

(* The packets handed to the writer: lengths around the limits of the code. *)
CapLens == {0, 60, PCAP_MAX_PKT_LEN - ETHER_HEAD_LEN, PCAP_MAX_PKT_LEN - ETHER_HEAD_LEN + 1,
            PCAP_MAX_PKT_LEN + 1}

Headers == {pcap_hdr(1, 2, c, c + d) : c \in CapLens, d \in {0, 4}}

SbufSizes == {160, 2 * PCAP_MAX_PKT_LEN}

Positions == {0, 100}

FrameTypes == {2048, 34525}            \* 0x0800 IPv4, 0x86dd IPv6

(* the arguments of the last pcap_writepkt: none yet *)
NoCall == [h |-> pcap_hdr(0, 0, 0, 0), bufsize |-> 0, pos |-> 0, add_frame |-> FALSE, frame_type |-> 0]

InitPcap ==
    /\ pcap = [op |-> "pcap_writer", status |-> "ok", alive |-> TRUE, fcap |-> FALSE,
               file |-> <<>>, written |-> 0, call |-> NoCall]
    /\ IdleFactory /\ IdleRaw /\ IdleScan /\ IdleMore

PcapWritepkt(h, bufsize, pos, add_frame, frame_type, fopen_ok) ==
    /\ pcap.alive
    /\ pcap.written < MaxPkts
    /\ pcap' = [pcap_writepkt(pcap, h, bufsize, pos, add_frame, frame_type, fopen_ok)
                   EXCEPT !.call = [h |-> h, bufsize |-> bufsize, pos |-> pos,
                                    add_frame |-> add_frame, frame_type |-> frame_type]]
    /\ UNCHANGED <<rawVars, factoryVars, fb, moreVars>>

(* pcap_writer::~pcap_writer: fclose under the lock. *)
PcapWriterDtor ==
    /\ pcap.alive
    /\ pcap' = [pcap EXCEPT !.op = "~pcap_writer", !.status = "ok", !.alive = FALSE, !.fcap = FALSE]
    /\ UNCHANGED <<rawVars, factoryVars, fb, moreVars>>

NextPcap ==
    \/ \E h \in Headers, bufsize \in SbufSizes, pos \in Positions, add_frame \in BOOLEAN,
          frame_type \in FrameTypes, fopen_ok \in BOOLEAN :
          PcapWritepkt(h, bufsize, pos, add_frame, frame_type, fopen_ok)
    \/ PcapWriterDtor

SpecPcap == InitPcap /\ [][NextPcap]_vars

(***************************************************************************)
(* Claims about pcap_writer.                                               *)
(***************************************************************************)
RECURSIVE FileSize(_)
FileSize(items) == IF items = <<>> THEN 0 ELSE Head(items).size + FileSize(Tail(items))

IsData(item) == item.kind \in {"bytes", "sbuf"}

(* The items from position k on that are packet data, up to the next field. *)
RECURSIVE DataFrom(_, _)
DataFrom(items, k) ==
    IF k > Len(items) \/ ~IsData(items[k]) THEN <<>>
    ELSE <<items[k]>> \o DataFrom(items, k + 1)

u32_value(item) == item.value[1] * 65536 + item.value[2]

(* The records of a file body: four 32-bit fields and the data after them. *)
RECURSIVE Records(_)
Records(body) ==
    IF body = <<>> THEN <<>>
    ELSE IF Len(body) < 4 \/ \E k \in 1 .. 4 : body[k].kind # "u32" THEN <<[bad |-> TRUE]>>
    ELSE LET data == DataFrom(body, 5)
         IN <<[bad |-> FALSE, incl_len |-> u32_value(body[3]), orig_len |-> u32_value(body[4]),
               follow |-> FileSize(data)]>>
            \o Records(SubSeq(body, 5 + Len(data), Len(body)))

\* C5 (as stated): after N successful pcap_writepkt calls the file is the
\* 24-byte global header (magic 0xA1B2C3D4, version 2.4, thiszone 0,
\* sigfigs 0, snaplen PCAP_MAX_PKT_LEN, linktype 1) followed by N records,
\* each with incl_len equal to the number of data bytes that follow its
\* header and at most snaplen, for every cap_len, pkt_len, position and
\* add_frame.
C5_PcapFileWellFormed ==
    (pcap.op # "none" /\ pcap.written > 0) =>
        LET header == SubSeq(pcap.file, 1, 7)
            records == Records(SubSeq(pcap.file, 8, Len(pcap.file)))
        IN /\ Len(pcap.file) >= 7
           /\ FileSize(header) = TCPDUMP_HEADER_SIZE
           /\ header[1].value = <<41394, 50132>>
           /\ header[2].value = 2 /\ header[3].value = 4
           /\ u32_value(header[4]) = 0 /\ u32_value(header[5]) = 0
           /\ u32_value(header[6]) = PCAP_MAX_PKT_LEN /\ u32_value(header[7]) = 1
           /\ Len(records) = pcap.written
           /\ \A k \in DOMAIN records :
                 /\ ~records[k].bad
                 /\ records[k].incl_len = records[k].follow
                 /\ records[k].incl_len <= u32_value(header[6])

(* the items of the record written by the last call *)
LastRecord == SubSeq(pcap.file, Len(pcap.file) - (IF pcap.file[Len(pcap.file) - 1].kind = "bytes" THEN 5 ELSE 4),
                     Len(pcap.file))

\* C18: pcap_writepkt prepends the 14-byte synthetic Ethernet header (12
\* zero bytes, then the high and the low byte of frame_type) exactly when
\* add_frame is set and cap_len + 14 <= PCAP_MAX_PKT_LEN, and then writes
\* incl_len = cap_len + 14 and orig_len = pkt_len + 14; otherwise it writes
\* no synthetic header and the lengths are cap_len and pkt_len.  A single
\* 60-byte packet written with synthesis gives a file of 114 bytes.
C18_SyntheticHeader ==
    (pcap.op = "pcap_writepkt" /\ pcap.status = "ok") =>
        LET c == pcap.call
            r == LastRecord
        IN  /\ IF c.add_frame /\ c.h.cap_len + 14 <= 65535
               THEN /\ Len(r) = 6
                    /\ u32_value(r[3]) = c.h.cap_len + 14
                    /\ u32_value(r[4]) = c.h.pkt_len + 14
                    /\ r[5].kind = "bytes" /\ r[5].size = 14
                    /\ r[5].value = [k \in 1 .. 14 |->
                                        IF k <= 12 THEN 0
                                        ELSE IF k = 13 THEN c.frame_type \div 256
                                        ELSE c.frame_type % 256]
                    /\ r[6].kind = "sbuf"
               ELSE /\ Len(r) = 5
                    /\ u32_value(r[3]) = c.h.cap_len
                    /\ u32_value(r[4]) = c.h.pkt_len
                    /\ r[5].kind = "sbuf"
            /\ (pcap.written = 1 /\ c.add_frame /\ c.h.cap_len = 60 /\ c.pos + 60 <= c.bufsize)
                  => FileSize(pcap.file) = 114

\* a single 60-byte IPv4 packet at offset 100, written with synthesis
C18_Witness ==
    /\ pcap.op = "pcap_writepkt" /\ pcap.status = "ok" /\ pcap.written = 1
    /\ pcap.call.add_frame /\ pcap.call.h.cap_len = 60 /\ pcap.call.pos = 100
    /\ pcap.call.frame_type = 2048
    /\ FileSize(pcap.file) = 114
    /\ pcap.file[12].value[13] = 8

\* a packet one byte too long for synthesis, written without the header
C18_WitnessSkipped ==
    /\ pcap.op = "pcap_writepkt" /\ pcap.status = "ok"
    /\ pcap.call.add_frame /\ pcap.call.h.cap_len = 65522
    /\ Len(LastRecord) = 5

(***************************************************************************)
(* scan_facebook (part_001).  The page is described by where the needles   *)
(* occur in it: text[l] is the needle that starts at offset l, 0 for none. *)
(***************************************************************************)
window == 4096

(* The lengths of the needles of facebook_searches, in order. *)
facebook_searches == <<14, 13, 27, 14, 18, 9, 17, 29, 13, 13, 23, 21, 42, 24, 21>>

Needles == 1 .. NNeedles

(* Offsets of the page at which a needle may start. *)
Locs == {0, 1, 2000, 4000, 4100, 8000}

(* The shapes of the page: pagesize and bufsize (pagesize plus margin,     *)
(* clipped at the end of the image).                                       *)
Pages == {[pagesize |-> 4096, bufsize |-> 8192], [pagesize |-> 4096, bufsize |-> 4150],
          [pagesize |-> 3000, bufsize |-> 3000], [pagesize |-> 40, bufsize |-> 40]}

(* Occurrences lie inside the buffer and do not overlap one another. *)
Texts(bufsize) ==
    {t \in [Locs -> 0 .. NNeedles] :
        /\ \A l \in Locs : t[l] # 0 => l + facebook_searches[t[l]] <= bufsize
        /\ \A l1, l2 \in Locs :
              (t[l1] # 0 /\ t[l2] # 0 /\ l1 < l2) => l1 + facebook_searches[t[l1]] <= l2}

(* sbuf_t::find(str, start): the first occurrence at or after start, -1 for none. *)
sbuf_find(text, j, start) ==
    LET at == {l \in Locs : text[l] = j /\ l >= start}
    IN IF at = {} THEN -1 ELSE CHOOSE l \in at : \A m \in at : l <= m

(* used_offsets_t::value_used, without its push_back. *)
value_used(offsets, value) ==
    \E k \in DOMAIN offsets :
        offsets[k] - window \div 2 < value /\ offsets[k] + window \div 2 > value

write_buf(pos, length, location, j) ==
    [begin |-> pos, length |-> length, location |-> location, needle |-> j]

(* The inner loop of one needle, from cursor i (lines 68-82); st holds     *)
(* used_offsets and the features written so far.                           *)
RECURSIVE search(_, _, _, _, _, _)
search(text, pgsize, bufsize, j, i, st) ==
    IF ~(i + 50 < bufsize) THEN st
    ELSE LET location == sbuf_find(text, j, i) IN
         IF location < 1 THEN st                                    \* break
         ELSE IF value_used(st.offsets, location)
         THEN search(text, pgsize, bufsize, j, location + window + 1, st)  \* i = location + window; continue
         ELSE LET begin_ == IF location > window \div 2 THEN location - window \div 2 ELSE 0
                  end0 == begin_ + window
                  end1 == IF end0 + 10 > bufsize THEN bufsize - 10 ELSE end0
              IN search(text, pgsize, bufsize, j, location + window + 1,
                        [offsets |-> Append(st.offsets, location),
                         features |-> Append(st.features,
                                             write_buf(begin_, end1 - begin_, location, j))])

(* The outer loop over the needles, from needle j (line 66). *)
RECURSIVE scan_facebook(_, _, _, _, _)
scan_facebook(text, pgsize, bufsize, j, st) ==
    IF j > NNeedles THEN st
    ELSE scan_facebook(text, pgsize, bufsize, j + 1, search(text, pgsize, bufsize, j, 0, st))

(* used_offsets_t kept from one SCAN call to the next *)
used_offsets_kept(offsets) == offsets

(* used_offsets_t used_offsets: the local of a SCAN call, constructed with *)
(* offsets() whatever an earlier call left                                 *)
used_offsets_t(offsets) == <<>>

InitScan ==
    /\ fb = NoScan
    /\ IdleFactory /\ IdleRaw /\ IdlePcap /\ IdleMore

(* PHASE_INIT: the scanner registers its name and its feature recorder. *)
ScanFacebookInit ==
    /\ fb = NoScan
    /\ fb' = [op |-> "PHASE_INIT", name |-> "facebook", feature_defs |-> <<"facebook">>]
    /\ UNCHANGED <<rawVars, factoryVars, pcap, moreVars>>

(* PHASE_SCAN of one page. *)
ScanFacebookScan(page, text) ==
    /\ fb.op = "PHASE_INIT"
    /\ \E st \in {scan_facebook(text, page.pagesize, page.bufsize, 1,
                                 [offsets |-> used_offsets_t(<<>>), features |-> <<>>])} :
         fb' = [op |-> "PHASE_SCAN", pagesize |-> page.pagesize, bufsize |-> page.bufsize,
                text |-> text, calls |-> 1, offsets |-> st.offsets,
                first |-> st.features, features |-> st.features]
    /\ UNCHANGED <<rawVars, factoryVars, pcap, moreVars>>

(* PHASE_SCAN once more, on a page with the same text. *)
ScanFacebookScanAgain ==
    /\ fb.op = "PHASE_SCAN" /\ fb.calls = 1
    /\ \E st \in {scan_facebook(fb.text, fb.pagesize, fb.bufsize, 1,
                                 [offsets |-> used_offsets_t(fb.offsets), features |-> <<>>])} :
         fb' = [fb EXCEPT !.calls = 2, !.offsets = st.offsets, !.features = st.features]
    /\ UNCHANGED <<rawVars, factoryVars, pcap, moreVars>>

NextScan ==
    \/ ScanFacebookInit
    \/ \E page \in Pages : \E text \in Texts(page.bufsize) : ScanFacebookScan(page, text)
    \/ ScanFacebookScanAgain

SpecScan == InitScan /\ [][NextScan]_vars

(***************************************************************************)
(* Claims about the scanners.                                              *)
(***************************************************************************)
\* C4 (as stated, for scan_facebook): every feature the scanner writes
\* corresponds to a match whose start lies in [0, pagesize) of the
\* PageBuffer it was given, never in the margin [pagesize, bufsize).
C4_FeaturesStartInPage ==
    fb.op = "PHASE_SCAN" =>
        \A k \in DOMAIN fb.features :
            /\ fb.text[fb.features[k].location] = fb.features[k].needle
            /\ 0 <= fb.features[k].location /\ fb.features[k].location < fb.pagesize

Distance(a, b) == IF a >= b THEN a - b ELSE b - a

(* C25: within one SCAN call, across all needles, no two windows are       *)
(* written for hit locations a and b with |a - b| < 2048; every window is  *)
(* written for a hit; and the used-offsets list starts empty for every     *)
(* page, so the same page scanned again writes the same windows.           *)
C25_WindowsAtLeast2048Apart ==
    fb.op = "PHASE_SCAN" =>
        /\ \A k1, k2 \in DOMAIN fb.features :
               k1 # k2 => Distance(fb.features[k1].location, fb.features[k2].location) >= 2048
        /\ \A k \in DOMAIN fb.features :
               fb.text[fb.features[k].location] = fb.features[k].needle
        /\ fb.offsets = [k \in DOMAIN fb.features |-> fb.features[k].location]
        /\ fb.features = fb.first

(* a hit of the second needle 100 bytes before a written hit of the first  *)
(* is suppressed, also when the page is scanned again                      *)
C25_Witness ==
    /\ fb.op = "PHASE_SCAN" /\ fb.calls = 2
    /\ fb.text[4100] = 1 /\ fb.text[4000] = 2
    /\ \E k \in DOMAIN fb.features : fb.features[k].location = 4100
    /\ \A k \in DOMAIN fb.features : fb.features[k].location # 4000

(* C26 as stated: for every written hit at location L the slice starts at  *)
(* max(0, L - 2048) and ends at min(start + 4096, bufsize); it has         *)
(* positive length, lies inside [0, bufsize) and contains L.               *)
C26_WindowClippedToBuffer ==
    fb.op = "PHASE_SCAN" =>
        \A k \in DOMAIN fb.features :
            LET f == fb.features[k]
                start == Max(0, f.location - 2048)
            IN  /\ f.begin = start
                /\ f.begin + f.length = Min(start + 4096, fb.bufsize)
                /\ f.length > 0
                /\ 0 <= f.begin /\ f.begin + f.length <= fb.bufsize
                /\ f.begin <= f.location /\ f.location < f.begin + f.length

(* What does hold: the slice starts at max(0, L - 2048), and ends at       *)
(* start + 4096 if that is at most bufsize - 10 and at bufsize - 10        *)
(* otherwise; it has positive length and lies inside [0, bufsize).         *)
C26_WindowClippedTenShort ==
    fb.op = "PHASE_SCAN" =>
        \A k \in DOMAIN fb.features :
            LET f == fb.features[k]
                start == Max(0, f.location - 2048)
            IN  /\ f.begin = start
                /\ f.begin + f.length = Min(start + 4096, fb.bufsize - 10)
                /\ f.length > 0
                /\ 0 <= f.begin /\ f.begin + f.length <= fb.bufsize

(* a window that ends 10 bytes before the end of the buffer although the   *)
(* 4096 bytes from its start reach past the end                            *)
C26_TenShort ==
    /\ fb.op = "PHASE_SCAN"
    /\ \E k \in DOMAIN fb.features :
          /\ fb.features[k].begin + 4096 > fb.bufsize
          /\ fb.features[k].begin + fb.features[k].length = fb.bufsize - 10

(***************************************************************************)
(* The iterators of the three kinds of source: process_raw (above),        *)
(* process_ewf (lines 487-517) and process_dir (lines 849-906).            *)
(***************************************************************************)
ewf_increment_iterator(e, i) ==
    LET o == i.raw_offset + e.pagesize
    IN [i EXCEPT !.raw_offset = IF o > e.ewf_filesize THEN e.ewf_filesize ELSE o]

dir_increment_iterator(d, i) ==
    LET n == i.file_number + 1
    IN [i EXCEPT !.file_number = IF n > d.files THEN d.files ELSE n]

(* process_dir::image_size: the 'size' is in files *)
dir_image_size(d) == d.files

(* A process_raw after open(), with the caller's cursor anywhere in the image. *)
InitCursorRaw ==
    /\ disk \in Disks
    /\ multipart \in BOOLEAN
    /\ readable = Names
    /\ pagesize \in 1 .. MaxPagesize
    /\ margin = 0
    /\ fdtable = EmptyFdTable
    /\ opened = TRUE
    /\ file_list = process_raw_open.file_list
    /\ raw_filesize = process_raw_open.raw_filesize
    /\ current_file_name = NoName
    /\ current_fd = -1
    /\ it \in {iterator(o, FALSE) : o \in 0 .. raw_filesize}
    /\ trav = NoTraversal
    /\ ret = [op |-> "open"]

InitCursor ==
    /\ InitCursorRaw
    /\ ewf \in {[op |-> "open", ewf_filesize |-> n, pagesize |-> p, from |-> o,
                 it |-> [raw_offset |-> o, eof |-> FALSE]] :
                n \in 0 .. MaxImage, p \in 1 .. MaxPagesize, o \in 0 .. MaxImage}
    /\ ewf.it.raw_offset <= ewf.ewf_filesize
    /\ dir \in {[op |-> "open", files |-> n, from |-> o,
                 it |-> [file_number |-> o, eof |-> FALSE]] :
                n \in 0 .. MaxDirFiles, o \in 0 .. MaxDirFiles}
    /\ dir.it.file_number <= dir.files
    /\ IdleFactory /\ IdlePcap /\ IdleScan /\ IdleMoreExcept({"ewf", "dir"})

EwfIncrementIterator ==
    /\ ewf' = [ewf EXCEPT !.op = "increment_iterator", !.from = ewf.it.raw_offset,
                          !.it = ewf_increment_iterator(ewf, ewf.it)]
    /\ UNCHANGED not_ewf

DirIncrementIterator ==
    /\ dir' = [dir EXCEPT !.op = "increment_iterator", !.from = dir.it.file_number,
                          !.it = dir_increment_iterator(dir, dir.it)]
    /\ UNCHANGED not_dir

NextCursor ==
    \/ IncrementIterator
    \/ EwfIncrementIterator
    \/ DirIncrementIterator

(* Each caller goes on incrementing its cursor. *)
SpecCursor ==
    /\ InitCursor /\ [][NextCursor]_vars
    /\ WF_vars(IncrementIterator) /\ WF_vars(EwfIncrementIterator) /\ WF_vars(DirIncrementIterator)

(***************************************************************************)
(* Claims about the iterators.                                             *)
(***************************************************************************)
CursorsAtSize ==
    /\ it.raw_offset = raw_filesize
    /\ ewf.it.raw_offset = ewf.ewf_filesize
    /\ dir.it.file_number = dir_image_size(dir)

\* C11: increment_iterator advances the cursor by one pagesize (one file
\* for a directory) and saturates at size(): a cursor at size() stays there
\* under further increments, and from any cursor <= size() finitely many
\* increments reach size(), for Raw, E01 and Directory sources.
C11_IncrementSaturates ==
    /\ [][/\ it' # it => it'.raw_offset = Min(it.raw_offset + pagesize, raw_filesize)
          /\ it.raw_offset = raw_filesize => it'.raw_offset = raw_filesize
          /\ ewf' # ewf =>
                ewf'.it.raw_offset = Min(ewf.it.raw_offset + ewf.pagesize, ewf.ewf_filesize)
          /\ ewf.it.raw_offset = ewf.ewf_filesize =>
                ewf'.it.raw_offset = ewf.ewf_filesize
          /\ dir' # dir =>
                dir'.it.file_number = Min(dir.it.file_number + 1, dir_image_size(dir))
          /\ dir.it.file_number = dir_image_size(dir) =>
                dir'.it.file_number = dir_image_size(dir)]_vars
    /\ <>[]CursorsAtSize

\* C11 witness: every cursor has reached size() by an increment that was
\* cut short of a whole step (Raw, E01) or that stepped onto it (Directory).
C11_Witness ==
    /\ CursorsAtSize
    /\ ret.op = "increment_iterator" /\ ret.from < raw_filesize
    /\ ret.from + pagesize > raw_filesize
    /\ ewf.op = "increment_iterator" /\ ewf.from < ewf.ewf_filesize
    /\ ewf.from + ewf.pagesize > ewf.ewf_filesize
    /\ dir.op = "increment_iterator" /\ dir.from < dir.files

(***************************************************************************)
(* scan_windirs.cpp: the FAT32 directory-entry validator.                  *)
(*                                                                         *)
(* A slot is the sequence of its bytes (0 .. 255); the byte at offset k of *)
(* the C structure is element k + 1.  The fields are decoded from the      *)
(* bytes at the offsets of struct fatfs_dentry and struct fatfs_dentry_lfn *)
(* (tsk3_fatdirs.h), which overlay the same 32 bytes.                      *)
(***************************************************************************)
INVALID == 0
VALID_DENTRY == 1
VALID_LFN == 2
VALID_LAST_DENTRY == 10
ALL_NULL == 20

sizeof_fatfs_dentry == 32

FATFS_ATTR_VOLUME == 8
FATFS_ATTR_DIRECTORY == 16
FATFS_ATTR_ARCHIVE == 32
FATFS_ATTR_LFN == 15
FATFS_ATTR_ALL == 63

RECURSIVE BitAnd(_, _)
BitAnd(a, b) ==
    IF a = 0 \/ b = 0 THEN 0
    ELSE (a % 2) * (b % 2) + 2 * BitAnd(a \div 2, b \div 2)

(* x & ~m for a byte x *)
BitClear(x, m) == x - BitAnd(x, m)

at(sbuf, off) == sbuf[off + 1]

(* fat16int and fat32int: little-endian integers of the on-disk fields *)
fat16int(sbuf, off) == at(sbuf, off) + 256 * at(sbuf, off + 1)
fat32int(sbuf, off) == fat16int(sbuf, off) + 65536 * fat16int(sbuf, off + 2)
fat32int2(sbuf, hi, lo) == fat16int(sbuf, lo) + 65536 * fat16int(sbuf, hi)

(* struct fatfs_dentry *)
dentry_name(sbuf) == [i \in 1 .. 8 |-> at(sbuf, i - 1)]
dentry_ext(sbuf) == [i \in 1 .. 3 |-> at(sbuf, 8 + i - 1)]
dentry_attrib(sbuf) == at(sbuf, 11)
dentry_ctimeten(sbuf) == at(sbuf, 13)
dentry_ctime(sbuf) == fat16int(sbuf, 14)
dentry_cdate(sbuf) == fat16int(sbuf, 16)
dentry_adate(sbuf) == fat16int(sbuf, 18)
dentry_wtime(sbuf) == fat16int(sbuf, 22)
dentry_wdate(sbuf) == fat16int(sbuf, 24)
dentry_cluster(sbuf) == fat32int2(sbuf, 20, 26)
dentry_size(sbuf) == fat32int(sbuf, 28)

(* struct fatfs_dentry_lfn *)
lfn_seq(sbuf) == at(sbuf, 0)
lfn_reserved1(sbuf) == at(sbuf, 12)
lfn_reserved2(sbuf) == fat16int(sbuf, 26)

(* The range checks of the FAT time and date encodings. *)
FATFS_ISTIME(t) ==
    /\ t % 32 <= 30
    /\ (t \div 32) % 64 <= 59
    /\ t \div 2048 <= 23

FATFS_ISDATE(d) ==
    /\ d % 32 >= 1 /\ d % 32 <= 31
    /\ (d \div 32) % 16 >= 1 /\ (d \div 32) % 16 <= 12
    /\ d \div 512 <= 127

(* The characters that may not appear in an 8.3 name or extension. *)
FATFS_IS_83_NAME(c) ==
    ~ (\/ c < 32 \/ c = 34 \/ (c >= 42 /\ c <= 44) \/ c = 46 \/ c = 47
       \/ (c >= 58 /\ c <= 63) \/ (c >= 91 /\ c <= 93) \/ c = 124)

FATFS_IS_83_EXT(c) == FATFS_IS_83_NAME(c) /\ c < 127

isupper(ch) == ch >= 65 /\ ch <= 90
isdigit(ch) == ch >= 48 /\ ch <= 57

(* ' ' ! # $ % & ' ( ) - @ ^ _ ` { } ~ *)
name_punctuation == {32, 33, 35, 36, 37, 38, 39, 40, 41, 45, 64, 94, 95, 96, 123, 125, 126}

(* the loop "make sure all characters are valid": it stops at the first    *)
(* 0 or ' ' and fails on a character outside the whitelist before that     *)
RECURSIVE chars_valid(_)
chars_valid(s) ==
    IF s = <<>> THEN TRUE
    ELSE IF Head(s) = 0 \/ Head(s) = 32 THEN TRUE
    ELSE IF ~ isupper(Head(s)) /\ ~ isdigit(Head(s)) /\ Head(s) \notin name_punctuation
         THEN FALSE
    ELSE chars_valid(Tail(s))

blanks(n) == [i \in 1 .. n |-> 32]

valid_fat_dentry_name(name, ext) ==
    IF name = <<46>> \o blanks(7) /\ ext = blanks(3) THEN TRUE
    ELSE IF name = <<46, 46>> \o blanks(6) /\ ext = blanks(3) THEN TRUE
    ELSE IF \E i \in 1 .. 8 : ~ FATFS_IS_83_NAME(name[i]) THEN FALSE
    ELSE IF \E i \in 1 .. 3 : ~ FATFS_IS_83_EXT(ext[i]) THEN FALSE
    ELSE IF ~ chars_valid(name) THEN FALSE
    ELSE chars_valid(ext)

fat_year(f) == (f \div 512) + 1980

RECURSIVE count_bits(_)
count_bits(x) == IF x = 0 THEN 0 ELSE (x % 2) + count_bits(x \div 2)

is_constant(sbuf, ch) == \A i \in 1 .. Len(sbuf) : sbuf[i] = ch

b2i(b) == IF b THEN 1 ELSE 0

(* the ten increments of weird_count *)
weird_count(sbuf, o) ==
      b2i(fat_year(dentry_cdate(sbuf)) > o.opt_last_year)
    + b2i(fat_year(dentry_adate(sbuf)) > o.opt_last_year)
    + b2i(dentry_size(sbuf) > o.opt_weird_file_size)
    + b2i(dentry_size(sbuf) > o.opt_weird_file_size2)
    + b2i(count_bits(dentry_attrib(sbuf)) > o.opt_max_bits_in_attrib)
    + b2i(dentry_cluster(sbuf) > o.opt_weird_cluster_count)
    + b2i(dentry_cluster(sbuf) > o.opt_weird_cluster_count2)
    + b2i(dentry_ctimeten(sbuf) # 0 /\ dentry_ctimeten(sbuf) # 100)
    + b2i(dentry_adate(sbuf) = 0 /\ dentry_cdate(sbuf) = 0)
    + b2i(dentry_adate(sbuf) = 0 /\ dentry_wdate(sbuf) = 0)

(* the branch of a VFAT long file name: attrib == FATFS_ATTR_LFN *)
valid_lfn_upto(sbuf) ==
    IF lfn_seq(sbuf) > 10 + 64 THEN INVALID
    ELSE IF lfn_reserved1(sbuf) # 0 THEN INVALID
    ELSE IF lfn_reserved2(sbuf) # 0 THEN INVALID
    ELSE VALID_LFN

valid_lfn(sbuf) ==
    IF BitClear(lfn_seq(sbuf), 64) > 10 THEN INVALID
    ELSE IF lfn_reserved1(sbuf) # 0 THEN INVALID
    ELSE IF lfn_reserved2(sbuf) # 0 THEN INVALID
    ELSE VALID_LFN

(* the branch of a short entry, without the four tests of equal fields *)
valid_short_unequal(sbuf, o) ==
    LET attrib == dentry_attrib(sbuf)
        ctime == dentry_ctime(sbuf)
        cdate == dentry_cdate(sbuf)
        adate == dentry_adate(sbuf)
    IN  IF at(sbuf, 0) = 0 THEN VALID_LAST_DENTRY
        ELSE IF BitAnd(attrib, FATFS_ATTR_LFN) = FATFS_ATTR_LFN /\ attrib # FATFS_ATTR_LFN
             THEN INVALID
        ELSE IF BitAnd(attrib, FATFS_ATTR_DIRECTORY) # 0 /\ BitAnd(attrib, FATFS_ATTR_ARCHIVE) # 0
             THEN INVALID
        ELSE IF BitAnd(attrib, 64) # 0 THEN INVALID
        ELSE IF ~ valid_fat_dentry_name(dentry_name(sbuf), dentry_ext(sbuf)) THEN INVALID
        ELSE IF dentry_ctimeten(sbuf) > 199 THEN INVALID
        ELSE IF ctime # 0 /\ ~ FATFS_ISTIME(ctime) THEN INVALID
        ELSE IF cdate # 0 /\ ~ FATFS_ISDATE(cdate) THEN INVALID
        ELSE IF adate # 0 /\ ~ FATFS_ISDATE(adate) THEN INVALID
        ELSE IF adate = 0 /\ ctime = 0 /\ cdate = 0
             THEN (IF BitAnd(attrib, FATFS_ATTR_VOLUME) # 0 THEN VALID_DENTRY ELSE INVALID)
        ELSE IF ~ FATFS_ISTIME(dentry_wtime(sbuf)) THEN INVALID
        ELSE IF ~ FATFS_ISDATE(dentry_wdate(sbuf)) THEN INVALID
        ELSE IF weird_count(sbuf, o) > o.opt_max_weird_count THEN INVALID
        ELSE VALID_DENTRY

(* the branch of a short entry *)
valid_short(sbuf, o) ==
    LET attrib == dentry_attrib(sbuf)
        ctime == dentry_ctime(sbuf)
        cdate == dentry_cdate(sbuf)
        adate == dentry_adate(sbuf)
        wtime == dentry_wtime(sbuf)
        wdate == dentry_wdate(sbuf)
    IN  IF at(sbuf, 0) = 0 THEN VALID_LAST_DENTRY
        ELSE IF BitAnd(attrib, FATFS_ATTR_LFN) = FATFS_ATTR_LFN /\ attrib # FATFS_ATTR_LFN
             THEN INVALID
        ELSE IF BitAnd(attrib, FATFS_ATTR_DIRECTORY) # 0 /\ BitAnd(attrib, FATFS_ATTR_ARCHIVE) # 0
             THEN INVALID
        ELSE IF BitAnd(attrib, 64) # 0 THEN INVALID
        ELSE IF ~ valid_fat_dentry_name(dentry_name(sbuf), dentry_ext(sbuf)) THEN INVALID
        ELSE IF dentry_ctimeten(sbuf) > 199 THEN INVALID
        ELSE IF ctime # 0 /\ ~ FATFS_ISTIME(ctime) THEN INVALID
        ELSE IF cdate # 0 /\ ~ FATFS_ISDATE(cdate) THEN INVALID
        ELSE IF adate # 0 /\ ~ FATFS_ISDATE(adate) THEN INVALID
        ELSE IF adate = 0 /\ ctime = 0 /\ cdate = 0
             THEN (IF BitAnd(attrib, FATFS_ATTR_VOLUME) # 0 THEN VALID_DENTRY ELSE INVALID)
        ELSE IF ~ FATFS_ISTIME(wtime) THEN INVALID
        ELSE IF ~ FATFS_ISDATE(wdate) THEN INVALID
        ELSE IF ctime # 0 /\ ctime = cdate THEN INVALID
        ELSE IF wtime # 0 /\ wtime = wdate THEN INVALID
        ELSE IF adate # 0 /\ adate = ctime THEN INVALID
        ELSE IF adate # 0 /\ adate = wtime THEN INVALID
        ELSE IF weird_count(sbuf, o) > o.opt_max_weird_count THEN INVALID
        ELSE VALID_DENTRY

(* valid_fat_directory_entry with a weird_count that is not reset between  *)
(* calls: the count of the previous call is carried into this one          *)
valid_fat_directory_entry_static(sbuf, o) ==
    LET carried == IF win.op = "valid_fat_directory_entry"
                   THEN weird_count(win.sbuf, o) ELSE 0
    IN  IF Len(sbuf) # sizeof_fatfs_dentry THEN INVALID
        ELSE IF is_constant(sbuf, at(sbuf, 0)) THEN ALL_NULL
        ELSE IF BitClear(dentry_attrib(sbuf), FATFS_ATTR_ALL) # 0 THEN INVALID
        ELSE IF dentry_attrib(sbuf) = FATFS_ATTR_LFN THEN valid_lfn(sbuf)
        ELSE IF weird_count(sbuf, o) + carried > o.opt_max_weird_count
                /\ valid_short(sbuf, o) = VALID_DENTRY /\ carried > 0
             THEN INVALID
        ELSE valid_short(sbuf, o)

valid_fat_directory_entry(sbuf, o) ==
    IF Len(sbuf) # sizeof_fatfs_dentry THEN INVALID
    ELSE IF is_constant(sbuf, at(sbuf, 0)) THEN ALL_NULL
    ELSE IF BitClear(dentry_attrib(sbuf), FATFS_ATTR_ALL) # 0 THEN INVALID
    ELSE IF dentry_attrib(sbuf) = FATFS_ATTR_LFN THEN valid_lfn(sbuf)
    ELSE valid_short(sbuf, o)

(***************************************************************************)
(* scan_windirs(): the INIT phase reads the configuration, the SCAN phase  *)
(* runs the two passes over the page.                                      *)
(***************************************************************************)
OptionNames == DOMAIN DefaultOptions

(* scanner_params::get_scanner_config: the value of the name in the        *)
(* configuration if it has one, the variable as it is otherwise            *)
get_scanner_config(config, name, val) ==
    IF name \in DOMAIN config THEN config[name] ELSE val

(* PHASE_INIT: opt_last_year from the clock, then the seven options *)
scan_windirs_init(o, year, config) ==
    LET o1 == [o EXCEPT !.opt_last_year = year + 5]
    IN  [name \in OptionNames |-> get_scanner_config(config, name, o1[name])]

ClockYears == {2015, 2024}

Configs ==
    { [name \in {} |-> 0],
      [name \in {"opt_max_weird_count"} |-> 0],
      [name \in {"opt_last_year", "opt_max_bits_in_attrib"} |->
          IF name = "opt_last_year" THEN 2200 ELSE 5] }

(* ---- the slots the validator is called with ---- *)
le16(v) == <<v % 256, (v \div 256) % 256>>

fat_date(year, month, day) == (year - 1980) * 512 + month * 32 + day
fat_time(hour, min, sec) == hour * 2048 + min * 32 + (sec \div 2)

short_entry(name, attrib, ctimeten, ctime, cdate, adate, wtime, wdate, cluster, size) ==
    name \o <<attrib, 0, ctimeten>> \o le16(ctime) \o le16(cdate) \o le16(adate)
         \o le16(cluster \div 65536) \o le16(wtime) \o le16(wdate)
         \o le16(cluster % 65536) \o le16(size % 65536) \o le16(size \div 65536)

lfn_entry(seq, reserved1, reserved2) ==
    <<seq>> \o [i \in 1 .. 10 |-> 65] \o <<FATFS_ATTR_LFN, reserved1, 0>>
            \o [i \in 1 .. 12 |-> 66] \o le16(reserved2) \o [i \in 1 .. 4 |-> 67]

HELLO_TXT == <<72, 69, 76, 76, 79, 32, 32, 32, 84, 88, 84>>
hello_txt == <<104, 101, 108, 108, 111, 32, 32, 32, 116, 120, 116>>
ENDED_TXT == <<0, 69, 76, 76, 79, 32, 32, 32, 84, 88, 84>>

ShortNames == {HELLO_TXT, hello_txt, ENDED_TXT}
Attribs == {0, 8, 16, 32, 39, 40, 48, 128}
Ctimetens == {0, 50, 200}
Ctimes == {0, fat_time(10, 30, 0)}
Cdates == {0, fat_date(2014, 5, 1), fat_date(2027, 5, 1)}
Adates == {0, fat_date(2014, 6, 2), fat_date(2027, 6, 2)}
Wtimes == {fat_time(12, 0, 2), fat_time(31, 0, 0)}
Wdates == {fat_date(2014, 7, 3), fat_date(2027, 7, 3)}
Clusters == {2, 32 * CLUSTERS_IN_1GiB + 1, 128 * CLUSTERS_IN_1GiB + 1}
Sizes == {0, 1024 * 1024 * 150 + 1, 1024 * 1024 * 512 + 1}

(* the short entries with a name of the set names *)
ShortSlots(names) ==
    { short_entry(n, a, ct, c, cd, ad, wt, wd, cl, sz) :
        n \in names, a \in Attribs, ct \in Ctimetens, c \in Ctimes, cd \in Cdates,
        ad \in Adates, wt \in Wtimes, wd \in Wdates, cl \in Clusters, sz \in Sizes }

(* the long-name entries with a seq byte of the set seqs *)
LfnSlots(seqs) == { lfn_entry(seq, r1, r2) : seq \in seqs, r1 \in {0, 1}, r2 \in {0, 256} }

ConstantSlots == { [i \in 1 .. n |-> c] : n \in {31, 32}, c \in {0, 15, 229} }

(* short entries whose time and date fields are 0 or one of two values     *)
(* that are both a FAT time and a FAT date, so that fields can be equal    *)
EqualValues == {0, fat_date(2014, 5, 1), fat_date(2014, 6, 2)}

EqualSlots ==
    { short_entry(HELLO_TXT, a, 0, c, cd, ad, wt, wd, 2, 0) :
        a \in {8, 32}, c \in EqualValues, cd \in EqualValues, ad \in EqualValues,
        wt \in EqualValues, wd \in EqualValues }

Slots(names, seqs) == ShortSlots(names) \cup LfnSlots(seqs) \cup ConstantSlots \cup EqualSlots

InitFat ==
    /\ opt = DefaultOptions
    /\ win = NoWindirs
    /\ IdleRaw /\ IdleFactory /\ IdlePcap /\ IdleScan /\ IdleMoreExcept({"opt", "win"})

(* scan_windirs(sp) with sp.phase == PHASE_INIT *)
ScanWindirsInit ==
    /\ win = NoWindirs
    /\ \E year \in ClockYears, config \in Configs :
         opt' = scan_windirs_init(opt, year, config)
    /\ win' = [op |-> "init", phase |-> "INIT"]
    /\ UNCHANGED <<rawVars, factoryVars, pcap, fb, ewf, dir, mt, rd, tp, rc, gf>>

(* a call of valid_fat_directory_entry in the SCAN phase *)
ValidFatDirectoryEntry ==
    /\ win.op = "init"
    /\ \E sbuf \in Slots(ShortNames, 0 .. 255) :
         win' = [op |-> "valid_fat_directory_entry", phase |-> "SCAN", sbuf |-> sbuf,
                 calls |-> 1, first |-> valid_fat_directory_entry(sbuf, opt),
                 ret |-> valid_fat_directory_entry(sbuf, opt)]
    /\ UNCHANGED not_win

(* the same buffer validated once more, as the second loop of scan_fatdirs does *)
ValidFatDirectoryEntryAgain ==
    /\ win.op = "valid_fat_directory_entry"
    /\ win.calls = 1
    /\ win' = [win EXCEPT !.calls = 2, !.ret = valid_fat_directory_entry(win.sbuf, opt)]
    /\ UNCHANGED not_win

NextFat == ScanWindirsInit \/ ValidFatDirectoryEntry \/ ValidFatDirectoryEntryAgain

SpecFat == InitFat /\ [][NextFat]_vars

(***************************************************************************)
(* Claims about valid_fat_directory_entry.                                 *)
(***************************************************************************)
Validated == win.op = "valid_fat_directory_entry"

(* a 32-byte, non-constant slot that is neither a long-name entry nor the  *)
(* end-of-directory marker                                                 *)
IsShortEntry(sbuf) ==
    /\ Len(sbuf) = 32
    /\ ~ is_constant(sbuf, sbuf[1])
    /\ dentry_attrib(sbuf) # 15
    /\ sbuf[1] # 0

(* the number of the ten weirdness conditions that the entry satisfies *)
WeirdConditions(sbuf, o) ==
    { k \in 1 .. 10 :
        \/ k = 1 /\ 1980 + dentry_cdate(sbuf) \div 512 > o.opt_last_year
        \/ k = 2 /\ 1980 + dentry_adate(sbuf) \div 512 > o.opt_last_year
        \/ k = 3 /\ dentry_size(sbuf) > o.opt_weird_file_size
        \/ k = 4 /\ dentry_size(sbuf) > o.opt_weird_file_size2
        \/ k = 5 /\ Cardinality({b \in 0 .. 7 : (dentry_attrib(sbuf) \div 2^b) % 2 = 1})
                      > o.opt_max_bits_in_attrib
        \/ k = 6 /\ dentry_cluster(sbuf) > o.opt_weird_cluster_count
        \/ k = 7 /\ dentry_cluster(sbuf) > o.opt_weird_cluster_count2
        \/ k = 8 /\ dentry_ctimeten(sbuf) \notin {0, 100}
        \/ k = 9 /\ dentry_adate(sbuf) = 0 /\ dentry_cdate(sbuf) = 0
        \/ k = 10 /\ dentry_adate(sbuf) = 0 /\ dentry_wdate(sbuf) = 0 }

TooWeird(sbuf, o) == Cardinality(WeirdConditions(sbuf, o)) > o.opt_max_weird_count

(* an entry with the VOLUME attribute whose ctime, cdate and adate are all zero *)
UndatedVolumeLabel(sbuf) ==
    /\ (dentry_attrib(sbuf) \div 8) % 2 = 1
    /\ dentry_ctime(sbuf) = 0 /\ dentry_cdate(sbuf) = 0 /\ dentry_adate(sbuf) = 0

(* the entry of the claim's example: cluster and size beyond the second    *)
(* thresholds and ctimeten = 50                                            *)
VeryWeird(sbuf, o) ==
    /\ dentry_cluster(sbuf) > o.opt_weird_cluster_count2
    /\ dentry_size(sbuf) > o.opt_weird_file_size2
    /\ dentry_ctimeten(sbuf) = 50

(* C12, as stated: valid_fat_directory_entry never returns VALID_DENTRY    *)
(* for a short entry whose weird-count exceeds opt_max_weird_count; under  *)
(* the defaults an entry with cluster > opt_weird_cluster_count2, size >   *)
(* opt_weird_file_size2 and ctimeten = 50 is rejected whatever its dates   *)
(* and attribute bits.                                                     *)
C12_WeirdCountRejects ==
    Validated /\ IsShortEntry(win.sbuf) =>
        /\ TooWeird(win.sbuf, opt) => win.ret # VALID_DENTRY
        /\ opt.opt_max_weird_count = 2 /\ VeryWeird(win.sbuf, opt) => win.ret # VALID_DENTRY

(* What does hold of the weird-count: the same for every short entry that  *)
(* is not an undated volume label (VOLUME attribute set and ctime, cdate,  *)
(* adate all zero); an undated volume label is accepted before the         *)
(* weird-count is taken.                                                   *)
C12_WeirdCountRejectsDated ==
    Validated /\ IsShortEntry(win.sbuf) /\ ~ UndatedVolumeLabel(win.sbuf) =>
        /\ TooWeird(win.sbuf, opt) => win.ret # VALID_DENTRY
        /\ opt.opt_max_weird_count = 2 /\ VeryWeird(win.sbuf, opt) => win.ret # VALID_DENTRY

(* a very weird entry that would be a valid dentry were it not for the count *)
C12_Witness ==
    /\ Validated /\ IsShortEntry(win.sbuf) /\ ~ UndatedVolumeLabel(win.sbuf)
    /\ opt.opt_max_weird_count = 2 /\ VeryWeird(win.sbuf, opt)
    /\ win.ret = INVALID
    /\ valid_fat_directory_entry(win.sbuf, [opt EXCEPT !.opt_max_weird_count = 10]) = VALID_DENTRY

(* the undated volume label that is accepted although it is very weird *)
C12_VolumeLabelAccepted ==
    /\ Validated /\ IsShortEntry(win.sbuf) /\ UndatedVolumeLabel(win.sbuf)
    /\ VeryWeird(win.sbuf, opt) /\ TooWeird(win.sbuf, opt)
    /\ win.ret = VALID_DENTRY

IsLfnSlot(sbuf) ==
    /\ Len(sbuf) = 32
    /\ ~ is_constant(sbuf, sbuf[1])
    /\ sbuf[12] = 15

FstClusLO(sbuf) == sbuf[27] + 256 * sbuf[28]

(* C20, as stated: for a non-constant slot with attrib == 0x0F the result  *)
(* is VALID_LFN exactly when seq <= 10 + 0x40, reserved1 == 0 and          *)
(* FstClusLO == 0, and INVALID otherwise.                                  *)
C20_LfnSeqUpTo74 ==
    Validated /\ IsLfnSlot(win.sbuf) =>
        win.ret = (IF win.sbuf[1] <= 10 + 64 /\ win.sbuf[13] = 0 /\ FstClusLO(win.sbuf) = 0
                   THEN VALID_LFN ELSE INVALID)

(* C20, amended: the result is VALID_LFN exactly when seq with the 0x40    *)
(* bit cleared is at most 10 (seq in 0 .. 10 or in 64 .. 74), reserved1 == *)
(* 0 and FstClusLO == 0, and INVALID otherwise, for every seq in 0 .. 255. *)
C20_LfnSeqMasked ==
    Validated /\ IsLfnSlot(win.sbuf) =>
        win.ret = (IF win.sbuf[1] \in (0 .. 10) \cup (64 .. 74)
                      /\ win.sbuf[13] = 0 /\ FstClusLO(win.sbuf) = 0
                   THEN VALID_LFN ELSE INVALID)

(* seq = 0x20 with both reserved fields zero: below 10 + 0x40, and INVALID *)
C20_Witness ==
    /\ Validated /\ IsLfnSlot(win.sbuf)
    /\ win.sbuf[1] = 32 /\ win.sbuf[13] = 0 /\ FstClusLO(win.sbuf) = 0
    /\ win.ret = INVALID

(* two of the fields the validator compares are equal *)
EqualFields(sbuf) ==
    \/ dentry_ctime(sbuf) = dentry_cdate(sbuf)
    \/ dentry_wtime(sbuf) = dentry_wdate(sbuf)
    \/ dentry_adate(sbuf) = dentry_ctime(sbuf)
    \/ dentry_adate(sbuf) = dentry_wtime(sbuf)

(* two of the fields the validator compares are equal and not zero *)
EqualNonzeroFields(sbuf) ==
    \/ dentry_ctime(sbuf) # 0 /\ dentry_ctime(sbuf) = dentry_cdate(sbuf)
    \/ dentry_wtime(sbuf) # 0 /\ dentry_wtime(sbuf) = dentry_wdate(sbuf)
    \/ dentry_adate(sbuf) # 0 /\ dentry_adate(sbuf) = dentry_ctime(sbuf)
    \/ dentry_adate(sbuf) # 0 /\ dentry_adate(sbuf) = dentry_wtime(sbuf)

(* C21 as stated: valid_fat_directory_entry returns INVALID for every      *)
(* short entry in which ctime == cdate, wtime == wdate, adate == ctime or  *)
(* adate == wtime, also when the two equal fields are both zero.           *)
C21_EqualFieldsRejected ==
    (Validated /\ IsShortEntry(win.sbuf) /\ EqualFields(win.sbuf)) => win.ret = INVALID

(* C21 as the code has it: valid_fat_directory_entry returns INVALID for   *)
(* every short entry, other than an undated volume label, in which two of  *)
(* the compared fields are equal and not zero.                             *)
C21_EqualNonzeroFieldsRejected ==
    (Validated /\ IsShortEntry(win.sbuf) /\ ~ UndatedVolumeLabel(win.sbuf)
       /\ EqualNonzeroFields(win.sbuf))
    => win.ret = INVALID

(* an entry rejected for adate == wtime alone: without the tests of equal  *)
(* fields it is a valid dentry                                             *)
C21_Witness ==
    /\ Validated /\ IsShortEntry(win.sbuf) /\ ~ UndatedVolumeLabel(win.sbuf)
    /\ dentry_adate(win.sbuf) # 0 /\ dentry_adate(win.sbuf) = dentry_wtime(win.sbuf)
    /\ dentry_ctime(win.sbuf) # dentry_cdate(win.sbuf)
    /\ dentry_wtime(win.sbuf) # dentry_wdate(win.sbuf)
    /\ dentry_adate(win.sbuf) # dentry_ctime(win.sbuf)
    /\ win.ret = INVALID
    /\ valid_short_unequal(win.sbuf, opt) = VALID_DENTRY

(* an entry with ctime == cdate == 0 that is accepted *)
C21_ZeroFieldsAccepted ==
    /\ Validated /\ IsShortEntry(win.sbuf) /\ ~ UndatedVolumeLabel(win.sbuf)
    /\ dentry_ctime(win.sbuf) = 0 /\ dentry_cdate(win.sbuf) = 0
    /\ win.ret = VALID_DENTRY

(* an undated volume label with wtime == wdate, not zero, that is accepted *)
C21_VolumeLabelAccepted ==
    /\ Validated /\ IsShortEntry(win.sbuf) /\ UndatedVolumeLabel(win.sbuf)
    /\ dentry_wtime(win.sbuf) # 0 /\ dentry_wtime(win.sbuf) = dentry_wdate(win.sbuf)
    /\ win.ret = VALID_DENTRY

(***************************************************************************)
(* scan_windirs.cpp: scan_fatdirs.  A page is the sbuf handed to the       *)
(* scanner: its bytes (bufsize = Len(buf)), its pagesize and its pos0.     *)
(***************************************************************************)
MaxSlots == 3           \* slots of a sector that are not zero-filled

sector_size == 512
max_entries == 16

(* sbuf_t(sbuf, off, len): the child buffer, clipped to the parent *)
child(buf, off, len) ==
    IF off >= Len(buf) THEN <<>>
    ELSE SubSeq(buf, off + 1, Min(off + len, Len(buf)))

(* fatYear(): the year field of a FAT date, counted from 1980 *)
fatYear(d) == d \div 512

(* "Attempt to validate the years" *)
years_valid(n, o) ==
    LET ayear == fatYear(dentry_adate(n))
        cyear == fatYear(dentry_cdate(n))
        wyear == fatYear(dentry_wdate(n))
    IN  /\ (ayear = 0 \/ 1980 + ayear < o.opt_last_year)
        /\ (cyear = 0 \/ 1980 + cyear < o.opt_last_year)
        /\ 1980 + wyear < o.opt_last_year

(* the first loop over the slots of a sector, from entry_number on *)
RECURSIVE first_pass(_, _, _, _)
first_pass(sector, o, entry_number, acc) ==
    IF entry_number >= max_entries THEN acc
    ELSE The({
        IF r = ALL_NULL THEN acc
        ELSE LET counted ==
                   IF r = VALID_DENTRY
                   THEN [acc EXCEPT !.ret1_count = @ + 1,
                                    !.valid_year_count =
                                        @ + b2i(years_valid(child(sector, entry_number * 32, 32), o))]
                   ELSE acc
             IN  IF r = INVALID THEN counted
                 ELSE IF r = VALID_DENTRY \/ r = VALID_LFN
                      THEN first_pass(sector, o, entry_number + 1,
                                      [counted EXCEPT !.last_valid_entry_number = entry_number])
                 ELSE IF r = VALID_LAST_DENTRY
                      THEN [counted EXCEPT !.last_valid_entry_number = entry_number]
                 ELSE first_pass(sector, o, entry_number + 1, counted)
        : r \in {valid_fat_directory_entry(child(sector, entry_number * 32, 32), o)} })

RECURSIVE not_blank(_)
not_blank(s) ==
    IF s = <<>> THEN <<>>
    ELSE (IF Head(s) # 32 THEN <<Head(s)>> ELSE <<>>) \o not_blank(Tail(s))

(* the filename of a feature: name without blanks, ".", ext without blanks *)
fat_filename(n) == not_blank(dentry_name(n)) \o <<46>> \o not_blank(dentry_ext(n))

fat_keys == {"filename", "ctimeten", "ctime", "atime", "mtime", "startcluster", "filesize", "attrib"}

fat_feature(pos0, n) ==
    [pos0 |-> pos0, feature |-> fat_filename(n), context |-> "src='fat'", map |-> fat_keys]

(* the second loop run over all the slots of the sector, whatever the      *)
(* first loop found                                                        *)
RECURSIVE emit_past(_, _, _, _, _)
emit_past(sector, o, pos0, entry_number, last) ==
    IF ~ (entry_number < max_entries) THEN <<>>
    ELSE LET n == child(sector, entry_number * 32, 32)
         IN  (IF valid_fat_directory_entry(n, o) = 1
              THEN <<fat_feature(pos0 + entry_number * 32, n)>> ELSE <<>>)
             \o emit_past(sector, o, pos0, entry_number + 1, last)

(* the second loop: one feature for every slot up to the last valid one    *)
(* that validates as a dentry                                              *)
RECURSIVE emit(_, _, _, _, _)
emit(sector, o, pos0, entry_number, last) ==
    IF ~ (entry_number <= last /\ entry_number < max_entries) THEN <<>>
    ELSE LET n == child(sector, entry_number * 32, 32)
         IN  (IF valid_fat_directory_entry(n, o) = 1
              THEN <<fat_feature(pos0 + entry_number * 32, n)>> ELSE <<>>)
             \o emit(sector, o, pos0, entry_number + 1, last)

no_entries == [last_valid_entry_number |-> -1, ret1_count |-> 0, valid_year_count |-> 0]

(* the sector without the test of last_valid_entry_number == 1 *)
scan_sector_single(sector, o, pos0) ==
    The({ IF c.ret1_count = 1 /\ c.valid_year_count = 0 THEN <<>>
          ELSE IF c.last_valid_entry_number >= 0 /\ c.ret1_count > 0
               THEN emit(sector, o, pos0, 0, c.last_valid_entry_number)
          ELSE <<>>
        : c \in {first_pass(sector, o, 0, no_entries)} })

(* the body of the loop over the sectors: what one sector writes *)
scan_sector(sector, o, pos0) ==
    The({ IF c.ret1_count = 1 /\ c.valid_year_count = 0 THEN <<>>
          ELSE IF c.last_valid_entry_number = 1 /\ c.valid_year_count = 0 THEN <<>>
          ELSE IF c.last_valid_entry_number >= 0 /\ c.ret1_count > 0
               THEN emit(sector, o, pos0, 0, c.last_valid_entry_number)
          ELSE <<>>
        : c \in {first_pass(sector, o, 0, no_entries)} })

RECURSIVE scan_fatdirs_from(_, _, _)
scan_fatdirs_from(page, o, base) ==
    IF ~ (base < page.pagesize) THEN <<>>
    ELSE LET sector == child(page.buf, base, sector_size)
         IN  IF Len(sector) < sector_size THEN <<>>
             ELSE scan_sector(sector, o, page.pos0 + base)
                  \o scan_fatdirs_from(page, o, base + sector_size)

scan_fatdirs(page, o) == scan_fatdirs_from(page, o, 0)

(***************************************************************************)
(* scan_windirs.cpp: scan_ntfsdirs.  The candidate n is the child buffer   *)
(* sbuf_t(sbuf, base, 1024): a view [buf, base, bufsize] on the bytes of   *)
(* the page.  Every access of the decoder goes through n; the decoder's    *)
(* state s records whether a range exception was thrown (exc) and the page *)
(* offsets of the bytes read so far (reads).                               *)
(***************************************************************************)
candidate_size == 1024
sizeof_ntfs_attr == 64

NTFS_MFT_RES == 0
NTFS_ATYPE_SI == 16
NTFS_ATYPE_ATTRLIST == 32
NTFS_ATYPE_FNAME == 48
NTFS_ATYPE_OBJID == 64

(* "FILE", the bytes of NTFS_MFT_MAGIC in the order of the buffer *)
NTFS_MFT_MAGIC == <<70, 73, 76, 69>>

view(buf, base, len) ==
    [buf |-> buf, base |-> base,
     bufsize |-> IF base >= Len(buf) THEN 0 ELSE Min(len, Len(buf) - base)]

(* the byte of the page behind offset off of n *)
byte_at(n, off) == IF n.base + off < Len(n.buf) THEN n.buf[n.base + off + 1] ELSE 0

u8(n, off) == byte_at(n, off)
u16(n, off) == byte_at(n, off) + 256 * byte_at(n, off + 1)

(* a typed read without the test against bufsize *)
get_unchecked(s, n, off, size) ==
    IF s.exc THEN s
    ELSE [s EXCEPT !.reads = @ \cup (n.base + off .. n.base + off + size - 1)]

(* sbuf_t::get8u, get16u, get32u, get64u: throws range_exception_t when    *)
(* the access would exceed bufsize, reads size bytes at off otherwise      *)
get(s, n, off, size) ==
    IF s.exc THEN s
    ELSE IF off + size > n.bufsize THEN [s EXCEPT !.exc = TRUE]
    ELSE [s EXCEPT !.reads = @ \cup (n.base + off .. n.base + off + size - 1)]

RECURSIVE gets(_, _, _, _)
gets(s, n, off, sizes) ==
    IF sizes = <<>> THEN s
    ELSE The({ gets(s1, n, off + Head(sizes), Tail(sizes)) : s1 \in {get(s, n, off, Head(sizes))} })

(* count consecutive accesses of size bytes each, from off on, in a loop:   *)
(* those that fit are read, the first that does not fit throws             *)
get_run(s, n, off, size, count) ==
    IF s.exc \/ count = 0 THEN s
    ELSE LET fit == IF off > n.bufsize THEN 0 ELSE Min(count, (n.bufsize - off) \div size)
         IN  [s EXCEPT !.reads = @ \cup (n.base + off .. n.base + off + fit * size - 1),
                       !.exc = fit < count]

(* sbuf_t::operator[] applied to count consecutive bytes, one at a time *)
index(s, n, off, count) == get_run(s, n, off, 1, count)

(* a 64-bit value > 1000 terabytes (10^15), compared by 16-bit digits *)
over_1000_terabyte(n, off) ==
    LET v == <<u16(n, off + 6), u16(n, off + 4), u16(n, off + 2), u16(n, off)>>
        t == <<3, 36222, 42182, 32768>>
    IN  \E i \in 1 .. 4 : v[i] > t[i] /\ \A j \in 1 .. i - 1 : v[j] = t[j]

(* attr_off += attr_len, with attr_len the 32-bit value at attr_off + 4:   *)
(* a length of 65536 or more ends the loop like any offset past bufsize    *)
advance(n, attr_off) ==
    IF u16(n, attr_off + 6) > 0 THEN attr_off + 65536
    ELSE attr_off + u16(n, attr_off + 4)

attr_type_is(n, attr_off, type) ==
    u16(n, attr_off) = type /\ u16(n, attr_off + 2) = 0

(* slen >= k for the 32-bit slen at attr_off + 16 *)
slen_at_least(n, attr_off, k) ==
    u16(n, attr_off + 18) > 0 \/ u16(n, attr_off + 16) >= k

add(s, keys) == [s EXCEPT !.mftmap = @ \cup keys]

(* "Decode a resident FNAME fields" *)
decode_fname(s0, n, attr_off) ==
    LET s1 == get([s0 EXCEPT !.found_attrs = @ + 1], n, attr_off + 20, 2)
        at0 == attr_off + u16(n, attr_off + 20)
        s2 == gets(index(s1, n, at0, 6), n, at0 + 6, <<2, 8, 8, 8, 8, 8>>)
        s3 == add(s2, {"par_ref", "par_seq", "crtime_fn", "mtime_fn", "ctime_fn", "atime_fn"})
        s4 == get(add(s3, {"filesize_alloc"}), n, at0 + 48, 8)
        s5 == gets(add(s4, {"filesize"}), n, at0 + 56, <<8, 1, 1>>)
        fname_nlen == u8(n, at0 + 64)
        s6 == get_run(add(s5, {"attr_flags"}), n, at0 + 66, 2, fname_nlen)
    IN  IF s2.exc THEN s2
        ELSE IF over_1000_terabyte(n, at0 + 40) THEN [s3 EXCEPT !.brk = TRUE]
        ELSE IF s4.exc THEN s4
        ELSE IF over_1000_terabyte(n, at0 + 48) THEN [s4 EXCEPT !.brk = TRUE]
        ELSE IF s6.exc THEN s6
        ELSE The({ [add(s6, {"filename"}) EXCEPT !.filename = name, !.names = Append(@, name)]
                   : name \in {[i \in 1 .. fname_nlen |-> u16(n, at0 + 66 + (i - 1) * 2)]} })

decode_si(s0, n, attr_off) ==
    LET s1 == get([s0 EXCEPT !.found_attrs = @ + 1], n, attr_off + 20, 2)
        at0 == attr_off + u16(n, attr_off + 20)
        s2 == gets(s1, n, at0, <<8, 8, 8, 8>>)
    IN  IF s2.exc THEN s2
        ELSE add(s2, {"crtime_si", "mtime_si", "ctime_si", "atime_si"})

(* the four GUIDs of $OBJECT_ID, each 16 bytes read with operator[] *)
RECURSIVE decode_guids(_, _, _, _, _)
decode_guids(s, n, attr_off, at0, k) ==
    IF k > 4 \/ s.exc \/ ~ slen_at_least(n, attr_off, 16 * k) THEN s
    ELSE LET s1 == index(s, n, at0 + 16 * (k - 1), 16)
             key == <<"guid_objectid", "guid_birthvolumeid", "guid_birthobjectid", "guid_domainid">>[k]
         IN  The({ IF s2.exc THEN s2
                   ELSE decode_guids(add(s2, {key}), n, attr_off, at0, k + 1) : s2 \in {s1} })

decode_objid(s0, n, attr_off) ==
    LET s1 == gets([s0 EXCEPT !.found_attrs = @ + 1], n, attr_off + 16, <<4>>)
        s2 == get(s1, n, attr_off + 20, 2)
    IN  IF s2.exc THEN s2
        ELSE decode_guids(s2, n, attr_off, attr_off + u16(n, attr_off + 20), 1)

(* the while loop over the attributes, from s.attr_off on *)
RECURSIVE decode_attrs(_, _)
decode_attrs(s, n) ==
    IF s.exc \/ s.brk \/ ~ (s.attr_off + sizeof_ntfs_attr < n.bufsize) THEN s
    ELSE LET a == s.attr_off
             s1 == gets(s, n, a, <<4, 4>>)
             s2 == gets(s1, n, a + 8, <<1, 1, 2, 2, 2>>)
             s3 == IF attr_type_is(n, a, NTFS_ATYPE_ATTRLIST)
                   THEN [s2 EXCEPT !.found_attrs = @ + 1] ELSE s2
             s4 == IF attr_type_is(n, a, NTFS_ATYPE_FNAME) THEN decode_fname(s3, n, a) ELSE s3
             s5 == IF s4.exc \/ s4.brk THEN s4
                   ELSE IF attr_type_is(n, a, NTFS_ATYPE_SI) THEN decode_si(s4, n, a) ELSE s4
             s6 == IF s5.exc \/ s5.brk THEN s5
                   ELSE IF attr_type_is(n, a, NTFS_ATYPE_OBJID) THEN decode_objid(s5, n, a) ELSE s5
         IN  IF s1.exc THEN s1
             ELSE IF u16(n, a + 4) = 0 /\ u16(n, a + 6) = 0 THEN [s1 EXCEPT !.brk = TRUE]
             ELSE IF s2.exc THEN s2
             ELSE The({ IF r.exc \/ r.brk THEN r
                        ELSE decode_attrs([r EXCEPT !.attr_off = advance(n, a)], n)
                        : r \in {IF u8(n, a + 8) # NTFS_MFT_RES THEN s2 ELSE s6} })

decoder_start == [exc |-> FALSE, brk |-> FALSE, reads |-> {}, attr_off |-> 0, found_attrs |-> 0,
                  mftmap |-> {}, filename |-> <<>>, names |-> <<>>, wrote |-> FALSE]

NOFILENAME == <<36, 78, 79, 70, 73, 76, 69, 78, 65, 77, 69>>

(* the try block of one candidate, writing whenever an attribute of a      *)
(* recognised type was found                                               *)
decode_found(n) ==
    LET s1 == get(decoder_start, n, 0, 4)
        s2 == get(s1, n, 16, 2)
        s3 == gets(s2, n, 8, <<8>>)
        s4 == get(s3, n, 18, 2)
        s5 == get(add(s4, {"nlink", "lsn", "seq"}), n, 20, 2)
        s6 == decode_attrs([s5 EXCEPT !.attr_off = u16(n, 20)], n)
    IN  IF s1.exc THEN s1
        ELSE IF [i \in 1 .. 4 |-> u8(n, i - 1)] # NTFS_MFT_MAGIC THEN s1
        ELSE IF s2.exc THEN s2
        ELSE IF ~ (u16(n, 16) < 10) THEN s2
        ELSE IF s6.exc THEN s6
        ELSE IF s6.found_attrs > 0
             THEN [s6 EXCEPT !.wrote = TRUE,
                             !.filename = IF Len(@) = 0 THEN NOFILENAME ELSE @]
        ELSE s6

(* the try block of one candidate: the state of the decoder at its end;    *)
(* wrote tells whether wrecorder.write was reached, names lists the values *)
(* assigned to filename                                                    *)
decode(n) ==
    LET s1 == get(decoder_start, n, 0, 4)
        s2 == get(s1, n, 16, 2)
        s3 == gets(s2, n, 8, <<8>>)
        s4 == get(s3, n, 18, 2)
        s5 == get(add(s4, {"nlink", "lsn", "seq"}), n, 20, 2)
        s6 == decode_attrs([s5 EXCEPT !.attr_off = u16(n, 20)], n)
    IN  IF s1.exc THEN s1
        ELSE IF [i \in 1 .. 4 |-> u8(n, i - 1)] # NTFS_MFT_MAGIC THEN s1
        ELSE IF s2.exc THEN s2
        ELSE IF ~ (u16(n, 16) < 10) THEN s2
        ELSE IF s6.exc THEN s6
        ELSE IF Cardinality(s6.mftmap) > 3
             THEN [s6 EXCEPT !.wrote = TRUE,
                             !.filename = IF Len(@) = 0 THEN NOFILENAME ELSE @]
        ELSE s6

mft_feature(pos0, s) ==
    [pos0 |-> pos0, feature |-> s.filename, context |-> "src='mft'", map |-> s.mftmap]

(* scan_ntfsdirs in which a range exception ends the scan of the page *)
RECURSIVE scan_ntfsdirs_abort(_, _)
scan_ntfsdirs_abort(page, base) ==
    IF ~ (base < page.pagesize) THEN <<>>
    ELSE LET n == view(page.buf, base, candidate_size)
         IN  IF n.bufsize # candidate_size
             THEN scan_ntfsdirs_abort(page, base + 512)
             ELSE The({
                 IF s.exc THEN <<>>
                 ELSE <<[base |-> base, exc |-> s.exc, reads |-> s.reads,
                         mftmap |-> s.mftmap, names |-> s.names,
                         features |-> IF s.wrote
                                      THEN <<mft_feature(page.pos0 + base, s)>> ELSE <<>>]>>
                      \o scan_ntfsdirs_abort(page, base + 512)
                 : s \in {decode(n)} })

(* the loop over the candidates, from base on: for every candidate decoded, *)
(* the exception flag, the bytes read and the feature written, in order     *)
RECURSIVE scan_ntfsdirs_from(_, _)
scan_ntfsdirs_from(page, base) ==
    IF ~ (base < page.pagesize) THEN <<>>
    ELSE LET n == view(page.buf, base, candidate_size)
         IN  IF n.bufsize # candidate_size
             THEN scan_ntfsdirs_from(page, base + 512)
             ELSE The({
                 <<[base |-> base, exc |-> s.exc, reads |-> s.reads,
                    mftmap |-> s.mftmap, names |-> s.names,
                    features |-> IF s.wrote /\ ~ s.exc
                                 THEN <<mft_feature(page.pos0 + base, s)>> ELSE <<>>]>>
                 : s \in {decode(n)} })
                 \o scan_ntfsdirs_from(page, base + 512)

scan_ntfsdirs(page) == scan_ntfsdirs_from(page, 0)

(***************************************************************************)
(* The pages scan_windirs is given in the SCAN phase.                      *)
(***************************************************************************)
MaxAttrs == 2           \* attributes in the chain of a sample MFT record

zeros(n) == [i \in 1 .. n |-> 0]

(* buf with bytes written at offset off *)
put(buf, off, bytes) ==
    SubSeq(buf, 1, off) \o SubSeq(bytes, 1, Min(Len(bytes), Len(buf) - off))
                       \o SubSeq(buf, off + Len(bytes) + 1, Len(buf))

(* ---- FAT sectors: a few slots, the rest of the sector zero ---- *)
D_plausible ==
    short_entry(HELLO_TXT, 32, 0, fat_time(10, 30, 0), fat_date(2014, 5, 1),
                fat_date(2014, 6, 2), fat_time(12, 0, 2), fat_date(2014, 7, 3), 2, 0)

D_implausible ==
    short_entry(HELLO_TXT, 32, 0, fat_time(10, 30, 0), fat_date(2014, 5, 1),
                fat_date(2014, 6, 2), fat_time(12, 0, 2), fat_date(2027, 7, 3), 2, 0)

L_valid == lfn_entry(65, 0, 0)

E_last == short_entry(ENDED_TXT, 32, 0, 0, 0, 0, 0, 0, 0, 0)

B_invalid ==
    short_entry(hello_txt, 32, 0, fat_time(10, 30, 0), fat_date(2014, 5, 1),
                fat_date(2014, 6, 2), fat_time(12, 0, 2), fat_date(2014, 7, 3), 2, 0)

Z_null == zeros(32)

SlotKinds == {D_plausible, D_implausible, L_valid, E_last, B_invalid, Z_null}

RECURSIVE concat(_)
concat(ss) == IF ss = <<>> THEN <<>> ELSE Head(ss) \o concat(Tail(ss))

(* the sectors with n slots of these kinds, the rest zero *)
Sectors(n) == { put(zeros(512), 0, concat(ss)) : ss \in [1 .. n -> SlotKinds] }

SecondSectors ==
    { put(zeros(512), 0, concat(ss)) :
        ss \in {<<>>, <<D_plausible>>, <<D_implausible, D_implausible, D_implausible>>} }

FatPages(n) ==
    { [buf |-> s0 \o s1, pagesize |-> 1024, pos0 |-> 0] : s0 \in Sectors(n), s1 \in SecondSectors }
    \cup { [buf |-> s0 \o s1, pagesize |-> 512, pos0 |-> 0] :
             s0 \in {put(zeros(512), 0, D_plausible)}, s1 \in SecondSectors }
    \cup { [buf |-> s0 \o SubSeq(s1, 1, 256), pagesize |-> 1024, pos0 |-> 0] :
             s0 \in {put(zeros(512), 0, D_plausible)}, s1 \in SecondSectors }

(* ---- MFT records ---- *)
(* the 24 bytes of a resident attribute header: type, len, res, nlen,      *)
(* name_off, flags, id, then ssize and soff                                *)
attr_header(type, len, res, slen, soff) ==
    le16(type) \o <<0, 0>> \o le16(len) \o <<0, 0>> \o <<res, 0, 0, 0, 0, 0, 0, 0>>
        \o le16(slen) \o <<0, 0>> \o le16(soff) \o <<0, 0>>

(* the sample attributes: their bytes from the start of the header, and    *)
(* the distance to the next attribute                                      *)
si_attr == attr_header(NTFS_ATYPE_SI, 96, 0, 72, 24) \o [i \in 1 .. 32 |-> 1]
si_far_attr == attr_header(NTFS_ATYPE_SI, 96, 0, 72, 2000)
list_attr == attr_header(NTFS_ATYPE_ATTRLIST, 32, 0, 8, 24)
nonres_attr == attr_header(NTFS_ATYPE_FNAME, 400, 1, 0, 2000)
zero_attr == attr_header(NTFS_ATYPE_SI, 0, 0, 72, 24)
fname_attr(nlen) ==
    attr_header(NTFS_ATYPE_FNAME, 104, 0, 70, 24) \o zeros(64) \o <<nlen, 0>> \o <<97, 0, 98, 0>>
fname_big_attr ==
    attr_header(NTFS_ATYPE_FNAME, 104, 0, 70, 24) \o zeros(40) \o [i \in 1 .. 8 |-> 255]
objid_attr(slen, soff) ==
    attr_header(NTFS_ATYPE_OBJID, 560, 0, slen, soff) \o [i \in 1 .. 64 |-> 7]

AttrKinds ==
    { si_attr, si_far_attr, list_attr, nonres_attr, zero_attr, fname_attr(0), fname_attr(2),
      fname_attr(255), fname_big_attr, objid_attr(8, 24), objid_attr(64, 24), objid_attr(32, 440) }

attr_len(a) == a[5] + 256 * a[6]

RECURSIVE put_attrs(_, _, _)
put_attrs(buf, off, attrs) ==
    IF attrs = <<>> THEN buf
    ELSE put_attrs(put(buf, off, Head(attrs)), off + attr_len(Head(attrs)), Tail(attrs))

(* the 1024 bytes of a record: magic, lsn, nlink, seq, attr_off, attributes *)
mft_record(magic, nlink, attr_off, attrs) ==
    put_attrs(put(zeros(1024), 0,
                  magic \o zeros(4) \o [i \in 1 .. 8 |-> 5] \o le16(nlink) \o le16(1) \o le16(attr_off)),
              attr_off, attrs)

(* the chains of up to n attributes *)
AttrChains(n) == UNION { [1 .. k -> AttrKinds] : k \in 0 .. n }

MftRecords(n) ==
    { mft_record(NTFS_MFT_MAGIC, 1, 56, attrs) : attrs \in AttrChains(n) }
    \cup { mft_record(m, l, o, <<si_attr>>) :
             m \in {NTFS_MFT_MAGIC, <<70, 73, 76, 70>>}, l \in {1, 10}, o \in {56, 1000} }

SecondRecords ==
    { zeros(1024),
      mft_record(NTFS_MFT_MAGIC, 1, 56, <<si_attr>>),
      mft_record(NTFS_MFT_MAGIC, 1, 56, <<nonres_attr, fname_attr(255)>>),
      mft_record(NTFS_MFT_MAGIC, 1, 56, <<fname_attr(2)>>) }

NtfsPages(n) ==
    { [buf |-> put(r0 \o zeros(512), 512, r1), pagesize |-> ps, pos0 |-> 0] :
        r0 \in MftRecords(n), r1 \in SecondRecords, ps \in {512, 1536} }

InitWindirs == InitFat

(* scan_windirs(sp) with sp.phase == PHASE_SCAN: the two passes over *sp.sbuf *)
ScanWindirsScan ==
    /\ win.op = "init"
    /\ \E page \in FatPages(MaxSlots) \cup NtfsPages(MaxAttrs) :
         \E fat \in {scan_fatdirs(page, opt)}, mft \in {scan_ntfsdirs(page)} :
            win' = [op |-> "scan", phase |-> "SCAN", page |-> page,
                    fat |-> fat,
                    mft |-> mft,
                    features |-> fat \o concat([i \in 1 .. Len(mft) |-> mft[i].features])]
    /\ UNCHANGED not_win

NextWindirs == ScanWindirsInit \/ ScanWindirsScan

SpecWindirs == InitWindirs /\ [][NextWindirs]_vars

(***************************************************************************)
(* Claims about scan_fatdirs.                                              *)
(***************************************************************************)
Scanned == win.op = "scan"

(* the sectors of the page that scan_fatdirs looks at *)
SectorBases(page) ==
    { b \in {0, 512, 1024} : b < page.pagesize /\ b + 512 <= Len(page.buf) }

Slot(page, b, k) == SubSeq(page.buf, b + 32 * k + 1, b + 32 * k + 32)

(* the classification of the 16 slots of a sector, as pairs <<slot, class>> *)
Classes(page, b) ==
    { <<k, valid_fat_directory_entry(Slot(page, b, k), opt)>> : k \in 0 .. 15 }

(* the slots the scanner counts: those before the first slot that is       *)
(* neither a valid dentry nor a valid long-name entry                      *)
Counted(cl) ==
    { k \in 0 .. 15 : \A j \in 0 .. k : <<j, VALID_DENTRY>> \in cl \/ <<j, VALID_LFN>> \in cl }

PlausibleYear(sbuf) ==
    LET y(d) == 1980 + d \div 512
    IN  /\ (dentry_adate(sbuf) \div 512 = 0 \/ y(dentry_adate(sbuf)) < opt.opt_last_year)
        /\ (dentry_cdate(sbuf) \div 512 = 0 \/ y(dentry_cdate(sbuf)) < opt.opt_last_year)
        /\ y(dentry_wdate(sbuf)) < opt.opt_last_year

(* of a sector: its valid dentries, the number of its last valid entry     *)
(* (the last counted slot, or the end-of-directory marker that follows     *)
(* the counted slots), and whether no valid dentry has a plausible year    *)
Sector(page, b) ==
    LET cl == Classes(page, b)
        counted == Counted(cl)
        c == Cardinality(counted)
        dentries == { k \in counted : <<k, VALID_DENTRY>> \in cl }
    IN  [dentries |-> dentries,
         last |-> IF c < 16 /\ <<c, VALID_LAST_DENTRY>> \in cl THEN c ELSE c - 1,
         no_plausible_year |-> \A k \in dentries : ~ PlausibleYear(Slot(page, b, k))]

ValidDentries(page, b) == Sector(page, b).dentries

NoPlausibleYear(page, b) == Sector(page, b).no_plausible_year

(* the offsets of the features written for the sector *)
Written(page, b) ==
    { win.fat[i].pos0 - page.pos0 : i \in { j \in 1 .. Len(win.fat) :
          win.fat[j].pos0 - page.pos0 \in b .. b + 511 } }

AllWritten(page, b, dentries) ==
    /\ Written(page, b) = { b + 32 * k : k \in dentries }
    /\ \A i \in 1 .. Len(win.fat) : win.fat[i].context = "src='fat'"

(* C19, as stated: the valid dentries of a sector are suppressed exactly   *)
(* when the sector has exactly one valid dentry and no valid dentry with a *)
(* plausible year; in every other case with at least one valid dentry each *)
(* valid dentry is written with src='fat'.                                 *)
C19_SuppressSingleOnly ==
    Scanned =>
        \A b \in SectorBases(win.page) :
            LET sector == Sector(win.page, b)
            IN  IF Cardinality(sector.dentries) = 1 /\ sector.no_plausible_year
                THEN Written(win.page, b) = {}
                ELSE AllWritten(win.page, b, sector.dentries)

(* C19, amended: the valid dentries of a sector are suppressed exactly     *)
(* when no valid dentry has a plausible year and either the sector has     *)
(* exactly one valid dentry or its last valid entry is slot 1; in every    *)
(* other case each valid dentry is written with src='fat'.  The valid      *)
(* entries are those before the first invalid or constant slot.            *)
C19_SuppressSingleOrPair ==
    Scanned =>
        \A b \in SectorBases(win.page) :
            LET sector == Sector(win.page, b)
            IN  IF /\ sector.no_plausible_year
                   /\ \/ Cardinality(sector.dentries) = 1
                      \/ sector.last = 1
                THEN Written(win.page, b) = {}
                ELSE AllWritten(win.page, b, sector.dentries)

(* slots 0 and 1 valid dentries with implausible years, slot 2 zero:       *)
(* nothing is written for the sector                                       *)
C19_Witness ==
    /\ Scanned /\ 0 \in SectorBases(win.page)
    /\ ValidDentries(win.page, 0) = {0, 1}
    /\ NoPlausibleYear(win.page, 0)
    /\ Written(win.page, 0) = {}

(* three valid dentries with implausible years are written *)
C19_WitnessWritten ==
    /\ Scanned /\ 512 \in SectorBases(win.page)
    /\ ValidDentries(win.page, 512) = {0, 1, 2}
    /\ NoPlausibleYear(win.page, 512)
    /\ Written(win.page, 512) = {512, 544, 576}

(* the slot at which the slot scan of the sector stops: the first one      *)
(* classified ALL_NULL, INVALID or VALID_LAST_DENTRY, or 16 if there is    *)
(* none                                                                    *)
StoppingSlot(cl) ==
    LET stops == { k \in 0 .. 15 : <<k, ALL_NULL>> \in cl \/ <<k, INVALID>> \in cl
                                     \/ <<k, VALID_LAST_DENTRY>> \in cl }
    IN  IF stops = {} THEN 16 ELSE CHOOSE k \in stops : \A j \in stops : k <= j

(* C22: the slot scan of a sector stops at the first slot classified       *)
(* ALL_NULL, INVALID or VALID_LAST_DENTRY; features are written only for   *)
(* VALID_DENTRY slots before that slot, never for a slot at or after it,   *)
(* and a sector without a VALID_DENTRY slot before it writes nothing.      *)
C22_WrittenBeforeStoppingSlot ==
    Scanned =>
        /\ \A i \in 1 .. Len(win.fat) :
               \E b \in SectorBases(win.page) : win.fat[i].pos0 - win.page.pos0 \in b .. b + 511
        /\ \A b \in SectorBases(win.page) :
               LET cl == Classes(win.page, b)
                   stop == StoppingSlot(cl)
               IN  /\ \A w \in Written(win.page, b) :
                         /\ (w - b) % 32 = 0
                         /\ (w - b) \div 32 < stop
                         /\ <<(w - b) \div 32, VALID_DENTRY>> \in cl
                   /\ (\A k \in 0 .. stop - 1 : <<k, VALID_DENTRY>> \notin cl)
                         => Written(win.page, b) = {}

(* a valid dentry is written, and a valid dentry that follows the invalid  *)
(* slot after it is not                                                    *)
C22_Witness ==
    /\ Scanned /\ 0 \in SectorBases(win.page)
    /\ <<0, VALID_DENTRY>> \in Classes(win.page, 0)
    /\ <<1, INVALID>> \in Classes(win.page, 0)
    /\ <<2, VALID_DENTRY>> \in Classes(win.page, 0)
    /\ Written(win.page, 0) = {0}

(* a sector of a long-name entry and an end-of-directory marker writes nothing *)
C22_WitnessNoDentry ==
    /\ Scanned /\ 0 \in SectorBases(win.page)
    /\ <<0, VALID_LFN>> \in Classes(win.page, 0)
    /\ <<1, VALID_LAST_DENTRY>> \in Classes(win.page, 0)
    /\ <<2, VALID_DENTRY>> \in Classes(win.page, 0)
    /\ Written(win.page, 0) = {}

(***************************************************************************)
(* Claims about scan_ntfsdirs.                                             *)
(***************************************************************************)
(* the candidates of the page that are decoded: 1024 bytes are available *)
CandidateBases(page) ==
    { b \in {0, 512, 1024} : b < page.pagesize /\ b + 1024 <= Len(page.buf) }

PageU16(page, off) == page.buf[off + 1] + 256 * page.buf[off + 2]

(* a candidate whose first attribute is a resident $STANDARD_INFORMATION   *)
(* whose four timestamps end past the candidate's 1024 bytes               *)
SiPastTheEnd(page, b) ==
    LET a == PageU16(page, b + 20)
    IN  /\ SubSeq(page.buf, b + 1, b + 4) = <<70, 73, 76, 69>>
        /\ PageU16(page, b + 16) < 10
        /\ a + 64 < 1024
        /\ PageU16(page, b + a) = 16 /\ PageU16(page, b + a + 2) = 0
        /\ PageU16(page, b + a + 4) > 0
        /\ page.buf[b + a + 9] = 0
        /\ a + PageU16(page, b + a + 20) + 32 > 1024

Alone(page, b) ==
    LET s == decode(view(page.buf, b, 1024))
    IN  IF s.wrote /\ ~ s.exc THEN <<mft_feature(page.pos0 + b, s)>> ELSE <<>>

MftFeatures == SelectSeq(win.features, LAMBDA f : f.context = "src='mft'")

(* C15: a range exception while decoding the candidate at base writes no   *)
(* feature for it, the scan goes on with the candidate at base + 512, and  *)
(* the features of the other candidates are what they are without it.      *)
C15_ExceptionSkipsOneCandidate ==
    Scanned =>
        /\ \A i \in 1 .. Len(win.mft) :
              win.mft[i].exc =>
                 /\ \A j \in 1 .. Len(win.features) :
                       win.features[j].context = "src='mft'"
                          => win.features[j].pos0 # win.page.pos0 + win.mft[i].base
                 /\ win.mft[i].base + 512 \in CandidateBases(win.page)
                       => i < Len(win.mft) /\ win.mft[i + 1].base = win.mft[i].base + 512
        /\ MftFeatures =
              (IF 0 \in CandidateBases(win.page) THEN Alone(win.page, 0) ELSE <<>>)
              \o (IF 512 \in CandidateBases(win.page) THEN Alone(win.page, 512) ELSE <<>>)

(* the candidate at 0 throws and the candidate at 512 writes its feature *)
C15_Witness ==
    /\ Scanned /\ Len(win.mft) = 2
    /\ win.mft[1].exc /\ win.mft[1].features = <<>>
    /\ ~ win.mft[2].exc /\ Len(win.mft[2].features) = 1
    /\ Len(MftFeatures) = 1 /\ MftFeatures[1].pos0 = win.page.pos0 + 512

(* the page holds the FILE magic and a link count below 10 at base *)
MagicAndLinks(page, b) ==
    /\ SubSeq(page.buf, b + 1, b + 4) = <<70, 73, 76, 69>>
    /\ PageU16(page, b + 16) < 10

(* the fields of a decoded attribute: what mftmap holds beyond nlink, lsn  *)
(* and seq                                                                 *)
AttributeFields(m) == m.mftmap \ {"nlink", "lsn", "seq"}

(* a record whose only attribute is a resident $ATTRIBUTE_LIST *)
AttrListOnly(page, b) ==
    LET a == PageU16(page, b + 20)
    IN  /\ MagicAndLinks(page, b)
        /\ a + 64 < 1024
        /\ PageU16(page, b + a) = 32 /\ PageU16(page, b + a + 2) = 0
        /\ PageU16(page, b + a + 4) = 32 /\ PageU16(page, b + a + 6) = 0
        /\ page.buf[b + a + 9] = 0
        /\ PageU16(page, b + a + 32 + 4) = 0 /\ PageU16(page, b + a + 32 + 6) = 0

(* the feature name of the claim: a decoded non-empty filename, or         *)
(* $NOFILENAME when no non-empty filename was decoded                      *)
NameIfAnyDecoded(m, name) ==
    IF \E k \in 1 .. Len(m.names) : m.names[k] # <<>>
    THEN \E k \in 1 .. Len(m.names) : m.names[k] # <<>> /\ name = m.names[k]
    ELSE name = NOFILENAME

(* the feature name of the code: the filename decoded last, or $NOFILENAME *)
(* when that is empty or none was decoded                                  *)
NameDecodedLast(m, name) ==
    IF m.names # <<>> /\ m.names[Len(m.names)] # <<>>
    THEN name = m.names[Len(m.names)]
    ELSE name = NOFILENAME

(* an mft feature is written for a candidate exactly when it is a full     *)
(* 1024 bytes with the magic and nlink < 10, its decode raised no bounds   *)
(* failure and a decoded attribute stored a field; its name obeys Name     *)
MftWrittenIff(Name(_, _)) ==
    Scanned =>
        /\ { win.mft[i].base : i \in 1 .. Len(win.mft) } = CandidateBases(win.page)
        /\ MftFeatures = concat([i \in 1 .. Len(win.mft) |-> win.mft[i].features])
        /\ \A i \in 1 .. Len(win.mft) :
              LET m == win.mft[i]
              IN  /\ (m.features # <<>>) <=>
                        (/\ MagicAndLinks(win.page, m.base)
                         /\ ~ m.exc
                         /\ AttributeFields(m) # {})
                  /\ AttrListOnly(win.page, m.base) => m.features = <<>>
                  /\ m.features # <<>> =>
                        /\ Len(m.features) = 1
                        /\ m.features[1].pos0 = win.page.pos0 + m.base
                        /\ m.features[1].context = "src='mft'"
                        /\ Name(m, m.features[1].feature)

(* C23 as stated: scan_ntfsdirs writes an 'mft' fileobject for the         *)
(* candidate at base if and only if it is a full 1024 bytes, starts with   *)
(* the FILE magic, has nlink < 10, decoding raised no bounds failure and a *)
(* decoded attribute stored a field; a record whose only attribute is      *)
(* $ATTRIBUTE_LIST writes nothing; the feature name is the decoded         *)
(* filename, or $NOFILENAME when no non-empty filename was decoded.        *)
C23_MftWrittenIffNamedIfAny == MftWrittenIff(NameIfAnyDecoded)

(* C23 as the code has it: the same, with the feature name the filename    *)
(* of the $FILE_NAME attribute decoded last, or $NOFILENAME when that      *)
(* filename is empty or no $FILE_NAME attribute was decoded.               *)
C23_MftWrittenIffNamedLast == MftWrittenIff(NameDecodedLast)

(* a record written under the name "ab" of its $FILE_NAME, and next to it  *)
(* a record of $STANDARD_INFORMATION alone written as $NOFILENAME          *)
C23_Witness ==
    /\ Scanned /\ Len(win.mft) = 2
    /\ Len(win.mft[1].features) = 1 /\ win.mft[1].features[1].feature = <<97, 98>>
    /\ "filename" \in win.mft[1].mftmap
    /\ Len(win.mft[2].features) = 1 /\ win.mft[2].features[1].feature = NOFILENAME
    /\ win.mft[2].names = <<>>

(* a record whose only attribute is $ATTRIBUTE_LIST writes nothing *)
C23_WitnessAttrList ==
    /\ Scanned /\ Len(win.mft) >= 1
    /\ AttrListOnly(win.page, win.mft[1].base)
    /\ ~ win.mft[1].exc /\ win.mft[1].features = <<>>

(* a $OBJECT_ID shorter than one GUID stores no field and writes nothing *)
C23_WitnessNoField ==
    /\ Scanned /\ Len(win.mft) >= 1
    /\ MagicAndLinks(win.page, win.mft[1].base)
    /\ PageU16(win.page, win.mft[1].base + 56) = 64
    /\ ~ win.mft[1].exc /\ AttributeFields(win.mft[1]) = {} /\ win.mft[1].features = <<>>

(* the name "ab" was decoded, an empty name after it, and the record is    *)
(* written as $NOFILENAME                                                  *)
C23_EmptyNameLast ==
    /\ Scanned /\ Len(win.mft) >= 1
    /\ win.mft[1].names = << <<97, 98>>, <<>> >>
    /\ Len(win.mft[1].features) = 1 /\ win.mft[1].features[1].feature = NOFILENAME

(***************************************************************************)
(* pcap_writer::pcap_writepkt called from several threads on one writer.   *)
(* Each thread runs the function step by step: it takes the lock on Mfcap  *)
(* (the lock_guard at the top of the function), tests fcap, opens the file *)
(* and writes the global header if fcap is null, writes the items of its   *)
(* record one at a time, and releases the lock when the function returns   *)
(* or throws.  An item of the file carries the call that wrote it.         *)
(***************************************************************************)
NThreads == 2
MaxCalls == 2           \* calls of pcap_writepkt per thread

Threads == 1 .. NThreads

(* a lock_guard on the mutex m can be taken *)
mutex_ignored(m) == TRUE

mutex_free(m) == m = 0

(* the items one call writes after the test of fcap: the global header if  *)
(* it opened the file, then its record                                     *)
writes_of(opened_here, c) ==
    pcap_writepkt([op |-> "pcap_writer", status |-> "ok", alive |-> TRUE, fcap |-> ~ opened_here,
                   file |-> <<>>, written |-> 0, call |-> NoCall],
                  c.h, c.bufsize, c.pos, c.add_frame, c.frame_type, TRUE).file

ThreadCalls ==
    { [h |-> pcap_hdr(1, 2, 60, 60), bufsize |-> 160, pos |-> 100, add_frame |-> a,
       frame_type |-> 2048] : a \in BOOLEAN }

InitThreads ==
    /\ mt = [op |-> "pcap_writer", Mfcap |-> 0, fcap |-> FALSE, opens |-> 0, file |-> <<>>,
             pc |-> [t \in Threads |-> "idle"],
             calls |-> [t \in Threads |-> 0],
             call |-> [t \in Threads |-> NoCall],
             pending |-> [t \in Threads |-> <<>>]]
    /\ IdleRaw /\ IdleFactory /\ IdlePcap /\ IdleScan /\ IdleMoreExcept({"mt"})

(* thread t enters pcap_writepkt *)
MtCall(t) ==
    /\ mt.pc[t] = "idle" /\ mt.calls[t] < MaxCalls
    /\ \E c \in ThreadCalls :
         mt' = [mt EXCEPT !.pc[t] = "lock", !.calls[t] = @ + 1, !.call[t] = c]
    /\ UNCHANGED not_mt

(* const std::lock_guard<std::mutex> lock(Mfcap) *)
MtLock(t) ==
    /\ mt.pc[t] = "lock"
    /\ mutex_free(mt.Mfcap)
    /\ mt' = [mt EXCEPT !.Mfcap = t, !.pc[t] = "test"]
    /\ UNCHANGED not_mt

(* if (fcap==0) *)
MtTest(t) ==
    /\ mt.pc[t] = "test"
    /\ mt' = [mt EXCEPT !.pc[t] = IF mt.fcap THEN "write" ELSE "fopen",
                        !.pending[t] = IF mt.fcap THEN writes_of(FALSE, mt.call[t]) ELSE <<>>]
    /\ UNCHANGED not_mt

(* fcap = ::fopen(..., "wb"): a new, empty file; or nullptr and the        *)
(* runtime_error, which releases the lock                                  *)
MtFopen(t) ==
    /\ mt.pc[t] = "fopen"
    /\ \E fopen_ok \in BOOLEAN :
         mt' = IF fopen_ok
               THEN [mt EXCEPT !.fcap = TRUE, !.opens = @ + 1, !.file = <<>>, !.pc[t] = "write",
                               !.pending[t] = writes_of(TRUE, mt.call[t])]
               ELSE [mt EXCEPT !.pc[t] = "idle", !.Mfcap = 0]
    /\ UNCHANGED not_mt

(* one pcap_write2, pcap_write4, pcap_write_bytes or sbuf.write *)
MtWrite(t) ==
    /\ mt.pc[t] = "write" /\ mt.pending[t] # <<>>
    /\ LET global == Len(mt.pending[t]) > Len(writes_of(FALSE, mt.call[t]))
       IN  mt' = [mt EXCEPT !.file = Append(@, [by |-> IF global THEN <<0, 0>> ELSE <<t, mt.calls[t]>>,
                                                item |-> Head(mt.pending[t])]),
                            !.pending[t] = Tail(@)]
    /\ UNCHANGED not_mt

(* the function returns: the lock_guard releases Mfcap *)
MtReturn(t) ==
    /\ mt.pc[t] = "write" /\ mt.pending[t] = <<>>
    /\ mt' = [mt EXCEPT !.pc[t] = "idle", !.Mfcap = 0]
    /\ UNCHANGED not_mt

NextThreads ==
    \E t \in Threads :
        MtCall(t) \/ MtLock(t) \/ MtTest(t) \/ MtFopen(t) \/ MtWrite(t) \/ MtReturn(t)

SpecThreads == InitThreads /\ [][NextThreads]_vars

(* C16: under any interleaving of concurrent pcap_writepkt calls the file  *)
(* is opened and the global header written exactly once, before the first  *)
(* record, and the items of one record are contiguous in the file.         *)
C16_OneHeaderContiguousRecords ==
    mt.op = "pcap_writer" =>
        LET f == mt.file
            hdr == { i \in 1 .. Len(f) : f[i].by = <<0, 0>> }
        IN  /\ mt.opens <= 1
            /\ (mt.opens = 1) = mt.fcap
            /\ hdr = 1 .. Cardinality(hdr) /\ Cardinality(hdr) <= 7
            /\ \A i \in hdr : f[i].item = global_header[i]
            /\ (\E i \in 1 .. Len(f) : f[i].by # <<0, 0>>) => Cardinality(hdr) = 7
            /\ \A i, k \in 1 .. Len(f) :
                  (i < k /\ f[i].by = f[k].by) => \A j \in i .. k : f[j].by = f[i].by

(* two threads have each written a record while the other was inside a call *)
C16_Witness ==
    /\ mt.op = "pcap_writer" /\ mt.fcap
    /\ \E i, j \in 1 .. Len(mt.file) :
          /\ mt.file[i].by[1] = 1 /\ mt.file[j].by[1] = 2 /\ j < i
    /\ mt.pc[1] = "write" /\ mt.pc[2] = "lock"

(***************************************************************************)
(* Concurrent process_raw::pread.  The function takes no lock (part_000    *)
(* lines 655-724): worker threads that share one process_raw share         *)
(* current_file_name, current_fd and the descriptor table.  Each thread    *)
(* goes through the statements of pread one access to the shared state at  *)
(* a time; rd holds the locals of each thread's call.  The assignment to   *)
(* current_file_name is a data race on a std::string: while a thread is    *)
(* inside it, the comparison another thread makes can come out either way. *)
(* rd.raced records that a call has begun while another was in progress.   *)
(***************************************************************************)
SegLen == 2             \* size of each segment file, in bytes
MaxPreads == 2          \* calls of pread per thread
MaxRead == 2            \* largest count given to a concurrent pread

NoResult == [status |-> "none"]

ReadCalls(size) == { [offset |-> o, bytes |-> b] : o \in 0 .. size, b \in 1 .. MaxRead }

InitReaders ==
    /\ IdleFactory /\ IdlePcap /\ IdleScan /\ IdleMoreExcept({"rd"})
    /\ disk = [f \in Names |-> SegLen]
    /\ multipart = TRUE
    /\ readable = Names
    /\ pagesize = 1
    /\ margin = 0
    /\ fdtable = EmptyFdTable
    /\ opened = TRUE
    /\ file_list = process_raw_open.file_list
    /\ raw_filesize = process_raw_open.raw_filesize
    /\ current_file_name = NoName
    /\ current_fd = -1
    /\ it = iterator(0, FALSE)
    /\ trav = NoTraversal
    /\ ret = [op |-> "open"]
    /\ rd = [op |-> "pread",
             pc |-> [t \in Threads |-> "idle"],
             calls |-> [t \in Threads |-> 0],
             arg |-> [t \in Threads |-> [offset |-> 0, bytes |-> 0]],
             offset |-> [t \in Threads |-> 0],
             bytes |-> [t \in Threads |-> 0],
             fi |-> [t \in Threads |-> 0],
             frames |-> [t \in Threads |-> <<>>],
             data |-> [t \in Threads |-> <<>>],
             via |-> [t \in Threads |-> <<>>],
             raced |-> FALSE,
             writing |-> {},
             out |-> [t \in Threads |-> NoResult]]

rd_fixed == <<notRawRd, disk, readable, multipart, pagesize, margin, opened,
              file_list, raw_filesize, it, trav, ret>>

(* the value the outermost call returns when the innermost returns r:      *)
(* frames are the bytes_read of the calls that recursed, outermost first   *)
RECURSIVE unwind(_, _)
unwind(frames, r) ==
    IF frames = <<>> THEN r
    ELSE LET bytes_read == frames[Len(frames)]
         IN  unwind(SubSeq(frames, 1, Len(frames) - 1),
                    IF bytes_read = 0 THEN 0 ELSE bytes_read + r)

(* the call of thread t returns n, or leaves by the exception `status` *)
leave(t, status, n, data, via) ==
    [rd EXCEPT !.pc[t] = "idle",
               !.data[t] = data,
               !.via[t] = via,
               !.out[t] = [status |-> status, n |-> n, data |-> data, via |-> via,
                           offset |-> rd.arg[t].offset, bytes |-> rd.arg[t].bytes,
                           raced |-> rd.raced]]

(* thread t calls pread(buf, bytes, offset) *)
RdCall(t) ==
    /\ rd.pc[t] = "idle" /\ rd.calls[t] < MaxPreads
    /\ \E c \in ReadCalls(raw_filesize) :
         rd' = [rd EXCEPT !.pc[t] = "find", !.calls[t] = @ + 1, !.arg[t] = c,
                          !.offset[t] = c.offset, !.bytes[t] = c.bytes,
                          !.frames[t] = <<>>, !.data[t] = <<>>, !.via[t] = <<>>,
                          !.out[t] = NoResult,
                          !.raced = @ \/ \E u \in Threads \ {t} : rd.pc[u] # "idle"]
    /\ UNCHANGED <<rd_fixed, fdtable, current_file_name, current_fd>>

(* const file_info *fi = find_offset(offset); if(fi==0) return 0; *)
RdFind(t) ==
    /\ rd.pc[t] = "find"
    /\ \E fi \in {find_offset(file_list, rd.offset[t])} :
         rd' = IF fi = 0
               THEN leave(t, "ok", unwind(rd.frames[t], 0), rd.data[t], rd.via[t])
               ELSE [rd EXCEPT !.pc[t] = "compare", !.fi[t] = fi]
    /\ UNCHANGED <<rd_fixed, fdtable, current_file_name, current_fd>>

(* if(fi->name != current_file_name) *)
RdCompare(t) ==
    /\ rd.pc[t] = "compare"
    /\ \E differs \in (IF rd.writing \ {t} # {} THEN BOOLEAN
                       ELSE {file_list[rd.fi[t]].name # current_file_name}) :
         rd' = [rd EXCEPT !.pc[t] = IF differs THEN "close" ELSE "read"]
    /\ UNCHANGED <<rd_fixed, fdtable, current_file_name, current_fd>>

(* if(current_fd>=0) close(current_fd); *)
RdClose(t) ==
    /\ rd.pc[t] = "close"
    /\ fdtable' = IF current_fd >= 0 THEN sys_close(fdtable, current_fd) ELSE fdtable
    /\ rd' = [rd EXCEPT !.pc[t] = "assign"]
    /\ UNCHANGED <<rd_fixed, current_file_name, current_fd>>

(* current_file_name = fi->name; the assignment begins *)
RdAssign(t) ==
    /\ rd.pc[t] = "assign"
    /\ rd' = [rd EXCEPT !.pc[t] = "assigning", !.writing = @ \cup {t}]
    /\ UNCHANGED <<rd_fixed, fdtable, current_file_name, current_fd>>

(* current_file_name = fi->name; the assignment is complete *)
RdAssigned(t) ==
    /\ rd.pc[t] = "assigning"
    /\ current_file_name' = file_list[rd.fi[t]].name
    /\ rd' = [rd EXCEPT !.pc[t] = "open", !.writing = @ \ {t}]
    /\ UNCHANGED <<rd_fixed, fdtable, current_fd>>

(* current_fd = ::open(fi->name.c_str(), O_RDONLY|O_BINARY);               *)
(* if(current_fd<=0) throw NoSuchFile                                      *)
RdOpen(t) ==
    /\ rd.pc[t] = "open"
    /\ \E o \in {sys_open(fdtable, file_list[rd.fi[t]].name, {})} :
         /\ current_fd' = o.fd
         /\ fdtable' = o.fdtable
         /\ rd' = IF o.fd <= 0
                  THEN leave(t, "NoSuchFile", 0, rd.data[t], rd.via[t])
                  ELSE [rd EXCEPT !.pc[t] = "read"]
    /\ UNCHANGED <<rd_fixed, current_file_name>>

(* bytes_read = ::pread64(current_fd, buf, bytes, offset - fi->offset),    *)
(* then the return of bytes_read or the recursion on the rest              *)
RdRead(t) ==
    /\ rd.pc[t] = "read"
    /\ LET f == file_list[rd.fi[t]]
           off == rd.offset[t] - f.offset
       IN  \E bytes_read \in {pread64(cache, rd.bytes[t], off, rd.bytes[t])} :
             LET isopen == current_fd \in DOMAIN fdtable
                 via == Append(rd.via[t], [fd |-> current_fd,
                                           file |-> IF isopen THEN fdtable[current_fd] ELSE NoName,
                                           wanted |-> f.name])
                 data == IF bytes_read < 0 THEN rd.data[t]
                         ELSE rd.data[t] \o FileBytes(fdtable[current_fd], off, bytes_read)
             IN  rd' = IF bytes_read < 0
                       THEN leave(t, "NoSuchFile", 0, data, via)
                       ELSE IF bytes_read = rd.bytes[t]
                       THEN leave(t, "ok", unwind(rd.frames[t], bytes_read), data, via)
                       ELSE [rd EXCEPT !.pc[t] = "find",
                                       !.frames[t] = Append(@, bytes_read),
                                       !.offset[t] = @ + bytes_read,
                                       !.bytes[t] = @ - bytes_read,
                                       !.data[t] = data,
                                       !.via[t] = via]
    /\ UNCHANGED <<rd_fixed, fdtable, current_file_name, current_fd>>

NextReaders ==
    \E t \in Threads :
        \/ RdCall(t) \/ RdFind(t) \/ RdCompare(t) \/ RdClose(t) \/ RdAssign(t)
        \/ RdAssigned(t) \/ RdOpen(t) \/ RdRead(t)

SpecReaders == InitReaders /\ [][NextReaders]_vars

(* a call of pread has returned or thrown *)
Returned(t) == rd.op = "pread" /\ rd.out[t] # NoResult

(* the call gave the bytes of the image at its own offset, each read       *)
(* through a descriptor that was open on the segment of that offset        *)
OwnBytes(o) ==
    LET n == Min(o.bytes, raw_filesize - o.offset)
    IN  /\ o.status = "ok"
        /\ o.n = n
        /\ o.data = SubSeq(Stream(file_list), o.offset + 1, o.offset + n)
        /\ \A i \in 1 .. Len(o.via) : o.via[i].file = o.via[i].wanted

(* C17: when two threads call process_raw::pread concurrently on offsets   *)
(* in different segments of a split image, each call returns the bytes of  *)
(* the segment containing its own offset: no interleaving lets a call read *)
(* through a descriptor opened for another segment or already closed.      *)
C17_ConcurrentPreadOwnBytes ==
    \A t, u \in Threads :
        (/\ Returned(t) /\ rd.pc[u] # "idle"
         /\ find_offset(file_list, rd.arg[t].offset) # 0
         /\ find_offset(file_list, rd.arg[u].offset) # 0
         /\ find_offset(file_list, rd.arg[t].offset) # find_offset(file_list, rd.arg[u].offset))
        => OwnBytes(rd.out[t])

(* What the code does give: as long as no two calls have overlapped, each  *)
(* call returns the bytes at its own offset.                               *)
C17_SerialPreadOwnBytes ==
    \A t \in Threads : (Returned(t) /\ ~ rd.out[t].raced) => OwnBytes(rd.out[t])

(* a call overlapped by a call on another segment has read through the     *)
(* other call's descriptor *)
C17_ReadOtherSegment ==
    \E t \in Threads :
        /\ Returned(t) /\ rd.out[t].status = "ok"
        /\ \E u \in Threads \ {t} : rd.pc[u] # "idle"
        /\ \E i \in 1 .. Len(rd.out[t].via) :
               rd.out[t].via[i].file \notin {NoName, rd.out[t].via[i].wanted}

(* a call has read through a descriptor the other call had closed *)
C17_ReadClosed ==
    \E t \in Threads :
        /\ Returned(t) /\ rd.out[t].status = "NoSuchFile"
        /\ \E i \in 1 .. Len(rd.out[t].via) : rd.out[t].via[i].file = NoName

(***************************************************************************)
(* process_raw::open on path names (part_000 lines 624-640), with          *)
(* image_process::fn_ends_with, is_multipart_file and make_list_template   *)
(* (lines 184-212).  A path is a sequence of characters; the environment   *)
(* is the set of paths access(R_OK) accepts.  A list template is the pair  *)
(* of the text before and after its "%03d".                                *)
(***************************************************************************)
MaxCounter == 3         \* largest counter of a segment file that may be readable

STR_000 == <<"0", "0", "0">>
STR_001 == <<"0", "0", "1">>
STR_001_VMDK == <<"0", "0", "1", ".", "v", "m", "d", "k">>

(* image_process::fn_ends_with *)
fn_ends_with(str, suffix) ==
    IF Len(suffix) > Len(str) THEN FALSE
    ELSE SubSeq(str, Len(str) - Len(suffix) + 1, Len(str)) = suffix

(* image_process::is_multipart_file *)
is_multipart_file(fn) ==
    \/ fn_ends_with(fn, DOT_000)
    \/ fn_ends_with(fn, DOT_001)
    \/ fn_ends_with(fn, STR_001_VMDK)

(* std::string::rfind(needle): the last position where needle starts,      *)
(* counted from 1; 0 for npos                                              *)
rfind_str(str, needle) ==
    LET found == { i \in 1 .. Len(str) - Len(needle) + 1 :
                     SubSeq(str, i, i + Len(needle) - 1) = needle }
    IN  IF found = {} THEN 0 ELSE CHOOSE i \in found : \A j \in found : j <= i

digit(c) == CASE c = "0" -> 0 [] c = "1" -> 1 [] c = "2" -> 2 [] c = "3" -> 3 [] c = "4" -> 4
              [] OTHER -> -1

digit_char(d) == <<"0", "1", "2", "3", "4", "5", "6", "7", "8", "9">>[d + 1]

(* atoi: the value of the leading decimal digits *)
RECURSIVE atoi_from(_, _)
atoi_from(str, acc) ==
    IF str = <<>> \/ digit(Head(str)) < 0 THEN acc
    ELSE atoi_from(Tail(str), 10 * acc + digit(Head(str)))

atoi(str) == atoi_from(str, 0)

(* the decimal digits of n >= 0 *)
RECURSIVE decimal(_)
decimal(n) == IF n < 10 THEN <<digit_char(n)>> ELSE decimal(n \div 10) \o <<digit_char(n % 10)>>

(* printf("%03d", n) for n >= 0: at least three digits, padded with zeros *)
format_03d(n) ==
    LET d == decimal(n)
    IN  [i \in 1 .. Max(0, 3 - Len(d)) |-> "0"] \o d

(* make_list_template with the digits looked for only at the end of the    *)
(* name: the last "000" or "001" of the matched suffix                     *)
make_list_template_suffix(path) ==
    LET p == IF fn_ends_with(path, STR_001_VMDK) THEN Len(path) - 7 ELSE Len(path) - 2
    IN  [start |-> atoi(SubSeq(path, p, p + 2)) + 1,
         before |-> SubSeq(path, 1, p - 1),
         after |-> SubSeq(path, p + 3, Len(path))]

(* image_process::make_list_template: *start and the format *)
make_list_template(path) ==
    LET p000 == rfind_str(path, STR_000)
        p == IF p000 = 0 THEN rfind_str(path, STR_001) ELSE p000
    IN  [start |-> atoi(SubSeq(path, p, p + 2)) + 1,
         before |-> SubSeq(path, 1, p - 1),
         after |-> SubSeq(path, p + 3, Len(path))]

(* snprintf(probename, sizeof(probename), templ.c_str(), num) *)
probename(templ, num) == templ.before \o format_03d(num) \o templ.after

(* the loop for(;;num++) of process_raw::open: the names added *)
RECURSIVE probe_names(_, _, _)
probe_names(templ, num, accessible) ==
    IF probename(templ, num) \notin accessible THEN <<>>
    ELSE <<probename(templ, num)>> \o probe_names(templ, num + 1, accessible)

(* process_raw::open: the names of file_list, in order *)
process_raw_open_names(image_fname, accessible) ==
    <<image_fname>> \o
    (IF is_multipart_file(image_fname)
     THEN probe_names(make_list_template(image_fname), make_list_template(image_fname).start,
                      accessible)
     ELSE <<>>)

(* ---- the paths and the files of the check ---- *)
Stems == { <<"a">>, <<"a", "0", "0", "0">>, <<"0", "0", "0", "a">>, <<"a", "0", "0", "1">>,
           <<"a", "0">>, <<"a", "1">> }

Suffixes == { DOT_000, DOT_001, STR_001_VMDK, <<".", "0", "0", "2">>, <<".", "r", "a", "w">>,
              <<".", "0", "0", "0", "0">>, STR_000 }

ImagePaths == { stem \o suffix : stem \in Stems, suffix \in Suffixes }

(* the files that may be readable next to path: the names either template  *)
(* gives for the counters of a set                                         *)
Accessible(path, counters_suffix, counters_code) ==
    IF ~ is_multipart_file(path) THEN {}
    ELSE { probename(make_list_template_suffix(path), n) : n \in counters_suffix }
         \cup { probename(make_list_template(path), n) : n \in counters_code }

InitTemplate ==
    /\ \E path \in ImagePaths, cs \in SUBSET (1 .. MaxCounter), cc \in SUBSET (1 .. MaxCounter) :
          tp = [op |-> "process_raw", image_fname |-> path,
                accessible |-> Accessible(path, cs, cc) \ {path}]
    /\ IdleRaw /\ IdleFactory /\ IdlePcap /\ IdleScan /\ IdleMoreExcept({"tp"})

(* process_raw::open() *)
ProcessRawOpenNames ==
    /\ tp.op = "process_raw"
    /\ tp' = [op |-> "open", image_fname |-> tp.image_fname, accessible |-> tp.accessible,
              file_list |-> process_raw_open_names(tp.image_fname, tp.accessible)]
    /\ UNCHANGED not_tp

NextTemplate == ProcessRawOpenNames

SpecTemplate == InitTemplate /\ [][NextTemplate]_vars

(* the segment list of the claim: the primary file, then the files whose   *)
(* names have the counter at the place of the trailing three digits,       *)
(* counting up from the digits + 1 while the file is readable              *)
RECURSIVE Successors(_, _, _)
Successors(t, num, accessible) ==
    IF t.before \o format_03d(num) \o t.after \notin accessible THEN <<>>
    ELSE <<t.before \o format_03d(num) \o t.after>> \o Successors(t, num + 1, accessible)

TrailingDigits(path) ==
    LET p == IF fn_ends_with(path, STR_001_VMDK) THEN Len(path) - 7 ELSE Len(path) - 2
    IN  [before |-> SubSeq(path, 1, p - 1), after |-> SubSeq(path, p + 3, Len(path)),
         parsed_digits |-> IF SubSeq(path, p, p + 2) = STR_001 THEN 1 ELSE 0]

EndsAsMultipart(path) ==
    \/ (Len(path) >= 4 /\ SubSeq(path, Len(path) - 3, Len(path)) \in {DOT_000, DOT_001})
    \/ (Len(path) >= 8 /\ SubSeq(path, Len(path) - 7, Len(path)) = STR_001_VMDK)

SegmentList(path, accessible) ==
    IF EndsAsMultipart(path)
    THEN <<path>> \o Successors(TrailingDigits(path), TrailingDigits(path).parsed_digits + 1,
                                accessible)
    ELSE <<path>>

OpenedNames == tp.op = "open"

(* C24: for a primary filename ending in .000, .001 or 001.vmdk the        *)
(* segment list is the primary file followed by the files with the         *)
(* trailing three digits of the matched suffix replaced by parsed_digits   *)
(* + 1, + 2, ... up to the first that is not readable; for any other       *)
(* filename it is the primary file alone.                                  *)
C24_SegmentsFromTrailingDigits ==
    OpenedNames => tp.file_list = SegmentList(tp.image_fname, tp.accessible)

(* What does hold: the claim for the paths whose last "000", or else last  *)
(* "001", is the one of the matched suffix.                                *)
C24_SegmentsWhenDigitsAreLast ==
    (OpenedNames /\ (EndsAsMultipart(tp.image_fname) =>
                       make_list_template(tp.image_fname).before
                          = TrailingDigits(tp.image_fname).before))
    => tp.file_list = SegmentList(tp.image_fname, tp.accessible)

(* a.001 with a.002 and a.003 readable gives the three files *)
C24_ThreeSegments ==
    /\ OpenedNames /\ tp.image_fname = <<"a">> \o DOT_001
    /\ tp.file_list = << <<"a">> \o DOT_001, <<"a", ".", "0", "0", "2">>, <<"a", ".", "0", "0", "3">> >>

(* a000.001 with a000.002 readable: the list is the primary file alone *)
C24_EarlierDigitsReplaced ==
    /\ OpenedNames /\ tp.image_fname = <<"a", "0", "0", "0">> \o DOT_001
    /\ <<"a", "0", "0", "0", ".", "0", "0", "2">> \in tp.accessible
    /\ tp.file_list = << tp.image_fname >>

(***************************************************************************)
(* The recursion of process_raw::pread (lines 655-724), one activation at  *)
(* a time.  rc holds the segment list as add_file recorded it, the number  *)
(* of bytes each file holds when it is read (a file may have been          *)
(* truncated since), and the arguments of the innermost activation and of  *)
(* its caller.  MaxDepth activations fit on the stack.                     *)
(***************************************************************************)
MaxDepth == 6
MaxRecorded == 2

segments(lengths) ==
    IF Len(lengths) = 2
    THEN <<file_info(1, 0, lengths[1]), file_info(2, lengths[1], lengths[2])>>
    ELSE <<file_info(1, 0, lengths[1]), file_info(2, lengths[1], lengths[2]),
           file_info(3, lengths[1] + lengths[2], lengths[3])>>

RecordedLengths == [1 .. 2 -> 0 .. MaxRecorded] \cup [1 .. 3 -> 1 .. MaxRecorded]

(* One activation up to its return or its recursive call (lines 657-719).  *)
pread_activation(fl, actual, bytes, offset) ==
    LET fi == find_offset(fl, offset) IN
    IF fi = 0 THEN [return |-> TRUE]                            \* nothing to read
    ELSE LET bytes_read == Min(bytes, Max(0, actual[fi] - (offset - fl[fi].offset)))
         IN IF bytes_read = bytes THEN [return |-> TRUE]
            ELSE [return |-> FALSE, bytes |-> bytes - bytes_read, offset |-> offset + bytes_read]

InitRecurse ==
    /\ \E lengths \in RecordedLengths :
         \E actual \in {a \in [DOMAIN lengths -> 0 .. MaxRecorded] :
                            \A f \in DOMAIN lengths : a[f] <= lengths[f]} :
            rc = [op |-> "open", file_list |-> segments(lengths), actual |-> actual]
    /\ IdleRaw /\ IdleFactory /\ IdlePcap /\ IdleScan /\ IdleMoreExcept({"rc"})

PreadCall(bytes, offset) ==
    /\ rc.op = "open" \/ (rc.op = "pread" /\ rc.status # "running")
    /\ rc' = [op |-> "pread", file_list |-> rc.file_list, actual |-> rc.actual,
              status |-> "running", depth |-> 1, bytes |-> bytes, offset |-> offset,
              caller |-> [bytes |-> bytes, offset |-> offset]]
    /\ UNCHANGED not_rc

PreadActivation ==
    /\ rc.op = "pread" /\ rc.status = "running"
    /\ \E a \in {pread_activation(rc.file_list, rc.actual, rc.bytes, rc.offset)} :
         rc' = IF a.return THEN [rc EXCEPT !.status = "returned"]
               ELSE IF rc.depth = MaxDepth THEN [rc EXCEPT !.status = "stack exhausted"]
               ELSE [rc EXCEPT !.depth = @ + 1, !.bytes = a.bytes, !.offset = a.offset,
                               !.caller = [bytes |-> rc.bytes, offset |-> rc.offset]]
    /\ UNCHANGED not_rc

NextRecurse ==
    \/ \E bytes \in 0 .. MaxBytes, offset \in 0 .. 3 * MaxRecorded : PreadCall(bytes, offset)
    \/ PreadActivation

(* A running call gets to execute. *)
SpecRecurse == InitRecurse /\ [][NextRecurse]_vars /\ WF_vars(PreadActivation)

Truncated == \E f \in DOMAIN rc.actual : rc.actual[f] < rc.file_list[f].length

(* C28 as stated: every call of process_raw::pread terminates, and each    *)
(* recursive call has a strictly larger offset and a strictly smaller      *)
(* remaining count than its caller, also when a read returns fewer bytes   *)
(* than the recorded length, zero included.                                *)
C28_PreadTerminates ==
    /\ []((rc.op = "pread" /\ rc.depth > 1) =>
             (rc.offset > rc.caller.offset /\ rc.bytes < rc.caller.bytes))
    /\ (rc.op = "pread" /\ rc.status = "running") ~> (rc.op = "pread" /\ rc.status = "returned")

(* What does hold: the same for files that hold their recorded lengths.    *)
C28_PreadTerminatesOnWholeFiles ==
    /\ []((rc.op = "pread" /\ rc.depth > 1 /\ ~Truncated) =>
             (rc.offset > rc.caller.offset /\ rc.bytes < rc.caller.bytes))
    /\ (rc.op = "pread" /\ rc.status = "running" /\ ~Truncated)
           ~> (rc.op = "pread" /\ rc.status = "returned")

(* a recursive call with the arguments of its caller: the read returned    *)
(* zero bytes inside the recorded length of a truncated file               *)
C28_SameArguments ==
    /\ rc.op = "pread" /\ rc.depth > 1
    /\ rc.caller = [bytes |-> rc.bytes, offset |-> rc.offset]

(* a call through three segments that returns from its third activation *)
C28_ThreeActivations ==
    /\ rc.op = "pread" /\ rc.status = "returned" /\ rc.depth = 3 /\ ~Truncated

(***************************************************************************)
(* begin, increment_iterator and seek_block of the three kinds of source,  *)
(* called in any order on one source: process_raw (lines 727-810),         *)
(* process_ewf (lines 437-517) and process_dir (lines 849-906).            *)
(***************************************************************************)
ewf_begin == [raw_offset |-> 0, eof |-> FALSE]

ewf_seek_block_min(e, i, block) ==
    [i EXCEPT !.raw_offset = Min(e.pagesize * block, e.ewf_filesize)]

(* process_ewf::seek_block: it.raw_offset = pagesize * block *)
ewf_seek_block(e, i, block) == [i EXCEPT !.raw_offset = e.pagesize * block]

(* process_ewf::sbuf_alloc up to sbuf_malloc (lines 461-472).  remaining   *)
(* is ewf_filesize - it.raw_offset as a number; the size_t count holds it  *)
(* modulo 2^64, so a negative remaining is a count of nearly 2^64.         *)
ewf_sbuf_alloc(e, i) ==
    LET count == e.pagesize + e.margin
        clipped == e.ewf_filesize < i.raw_offset + count
        remaining == IF clipped THEN e.ewf_filesize - i.raw_offset ELSE count
    IN [clipped |-> clipped, remaining |-> remaining,
        wrapped |-> remaining < 0,
        this_pagesize |-> IF remaining < 0 THEN e.pagesize ELSE Min(e.pagesize, remaining)]

dir_begin == [file_number |-> 0, eof |-> FALSE]

(* process_dir::seek_block: it.file_number = block *)
dir_seek_block(i, block) == [i EXCEPT !.file_number = block]

(* process_dir::get_pos0 reads files[it.file_number]; operator[] past the  *)
(* end of the vector is undefined: the call crashes or returns whatever    *)
(* lies there.                                                             *)
dir_get_pos0(d, i) ==
    IF i.file_number < d.files THEN {[pos0 |-> i.file_number, past |-> FALSE]}
    ELSE {[pos0 |-> "crash", past |-> TRUE], [pos0 |-> "garbage", past |-> TRUE]}

InitSeekEwf ==
    /\ ewf \in {[op |-> "begin", ewf_filesize |-> n, pagesize |-> p, margin |-> m, from |-> 0,
                 it |-> ewf_begin] :
                n \in 0 .. MaxImage, p \in 1 .. MaxPagesize, m \in 0 .. MaxMargin}
    /\ IdleRaw /\ IdleFactory /\ IdlePcap /\ IdleScan /\ IdleMoreExcept({"ewf"})

InitSeekDir ==
    /\ dir \in {[op |-> "begin", files |-> n, from |-> 0, it |-> dir_begin] :
                n \in 0 .. MaxDirFiles}
    /\ IdleRaw /\ IdleFactory /\ IdlePcap /\ IdleScan /\ IdleMoreExcept({"dir"})

InitSeek == InitIter \/ InitSeekEwf \/ InitSeekDir

EwfBegin ==
    /\ ewf' = [ewf EXCEPT !.op = "begin", !.from = ewf.it.raw_offset, !.it = ewf_begin]
    /\ UNCHANGED not_ewf

EwfSeekBlock(block) ==
    /\ ewf' = [ewf EXCEPT !.op = "seek_block", !.from = ewf.it.raw_offset,
                          !.it = ewf_seek_block(ewf, ewf.it, block)]
    /\ UNCHANGED not_ewf

(* sbuf_alloc leaves the cursor where it is; its count is kept in `from`. *)
EwfSbufAlloc ==
    /\ ewf' = [ewf EXCEPT !.op = "sbuf_alloc", !.from = ewf_sbuf_alloc(ewf, ewf.it).remaining]
    /\ UNCHANGED not_ewf

DirBegin ==
    /\ dir' = [dir EXCEPT !.op = "begin", !.from = dir.it.file_number, !.it = dir_begin]
    /\ UNCHANGED not_dir

DirSeekBlock(block) ==
    /\ dir' = [dir EXCEPT !.op = "seek_block", !.from = dir.it.file_number,
                          !.it = dir_seek_block(dir.it, block)]
    /\ UNCHANGED not_dir

(* get_pos0 as the traversal calls it, on a cursor that is not end(). *)
DirGetPos0 ==
    /\ dir.it.file_number # dir_image_size(dir)
    /\ \E r \in dir_get_pos0(dir, dir.it) :
         dir' = [dir EXCEPT !.op = IF r.past THEN "get_pos0 past the end" ELSE "get_pos0",
                            !.from = dir.it.file_number]
    /\ UNCHANGED not_dir

(* One source is in use: the others stay as they were constructed. *)
RawSource == ewf = NoEwf /\ dir = NoDir

NextSeek ==
    \/ RawSource /\ Open
    \/ RawSource /\ Begin
    \/ RawSource /\ IncrementIterator
    \/ \E block \in 0 .. MaxBlock : RawSource /\ SeekBlock(block)
    \/ ewf # NoEwf /\ EwfBegin
    \/ ewf # NoEwf /\ EwfIncrementIterator
    \/ \E block \in 0 .. MaxBlock : ewf # NoEwf /\ EwfSeekBlock(block)
    \/ ewf # NoEwf /\ EwfSbufAlloc
    \/ dir # NoDir /\ DirBegin
    \/ dir # NoDir /\ DirIncrementIterator
    \/ \E block \in 0 .. MaxBlock : dir # NoDir /\ DirSeekBlock(block)
    \/ dir # NoDir /\ DirGetPos0

SpecSeek == InitSeek /\ [][NextSeek]_vars

(* C29 as stated: for a Raw, an E01 and a Directory source, after any      *)
(* begin, increment_iterator and seek_block(b) calls the cursor is at most *)
(* image_size(), sbuf_alloc computes no negative remaining count, and      *)
(* get_pos0 does not index past the file list.                             *)
C29_CursorWithinImage ==
    /\ opened => it.raw_offset <= raw_filesize
    /\ ewf # NoEwf =>
          /\ ewf.it.raw_offset <= ewf.ewf_filesize
          /\ ewf.op = "sbuf_alloc" => ewf.from >= 0
    /\ dir # NoDir =>
          /\ dir.it.file_number <= dir_image_size(dir)
          /\ dir.op # "get_pos0 past the end"

(* What does hold: the cursor of a Raw source is at most image_size(), and *)
(* so is the cursor of an E01 or Directory source that seek_block has not  *)
(* moved.                                                                  *)
C29_RawCursorWithinImage ==
    /\ opened => it.raw_offset <= raw_filesize
    /\ [][/\ (ewf # NoEwf /\ ewf.it.raw_offset <= ewf.ewf_filesize /\ ewf'.op # "seek_block")
               => ewf'.it.raw_offset <= ewf.ewf_filesize
          /\ (dir # NoDir /\ dir.it.file_number <= dir.files /\ dir'.op # "seek_block")
               => dir'.it.file_number <= dir.files]_vars

(* seek_block(4) on an E01 image of 4 bytes with pagesize 3, then sbuf_alloc *)
C29_EwfPastImage ==
    /\ ewf # NoEwf /\ ewf.op = "sbuf_alloc"
    /\ ewf.ewf_filesize = 4 /\ ewf.pagesize = 3 /\ ewf.it.raw_offset = 12 /\ ewf.from = -8

(* seek_block(4) on a directory of 3 files, then get_pos0 *)
C29_DirPastFiles ==
    /\ dir # NoDir /\ dir.op = "get_pos0 past the end" /\ dir.files = 3 /\ dir.it.file_number = 4

(* seek_block(4) on a Raw image of fewer than 4 blocks lands at the start  *)
(* of the last block                                                       *)
C29_RawClamped ==
    /\ opened /\ ret.op = "seek_block" /\ ret.block = 4 /\ ret.result < 4
    /\ it.raw_offset = ret.result * pagesize /\ it.raw_offset <= raw_filesize

(***************************************************************************)
(* get_filesize(fd) (lines 95-151).  The descriptor is given by what the   *)
(* system calls return on it: fstat reports st_size, and a read of one     *)
(* byte at offset o returns 1 exactly when o is less than size.            *)
(***************************************************************************)
MaxSize == 70
LargestExponent == 29

(* ::pread64(fd, buf, 1, offset) *)
pread64_one(size, offset) == IF offset < size THEN 1 ELSE 0

bit(x, i) == (x \div 2 ^ i) % 2

(* x | ((int64_t)1 << i)  and  x & ~((int64_t)1 << i) *)
or_bit(x, i) == IF bit(x, i) = 1 THEN x ELSE x + 2 ^ i
and_not_bit(x, i) == IF bit(x, i) = 1 THEN x - 2 ^ i ELSE x

(* Phase 1 (lines 131-136): the first bits whose read at 1 << bits fails. *)
RECURSIVE phase1(_, _)
phase1(size, bits) ==
    IF bits < 60 /\ pread64_one(size, 2 ^ bits) = 1 THEN phase1(size, bits + 1) ELSE bits

(* Phase 2 (lines 140-148): for i from bits down to 0. *)
RECURSIVE phase2(_, _, _)
phase2(size, raw_size, i) ==
    IF i < 0 THEN raw_size
    ELSE The({phase2(size, r, i - 1) :
              r \in {IF pread64_one(size, or_bit(raw_size, i)) = 1 THEN or_bit(raw_size, i)
                                                                  ELSE and_not_bit(raw_size, i)}})

get_filesize(size, st_size) ==
    IF st_size > 0 THEN [status |-> "ok", filesize |-> st_size]
    ELSE LET bits == phase1(size, 0) IN
         IF bits = 60 THEN [status |-> "runtime_error", filesize |-> 0]
         ELSE The({[status |-> "ok", filesize |-> IF r > 0 THEN r + 1 ELSE r] :
                   r \in {phase2(size, 2 ^ bits, bits)}})

(* Sizes: the small ones, and the powers of two with their neighbours. *)
FileSizes(max) ==
    0 .. max \cup UNION {{2 ^ k - 1, 2 ^ k, 2 ^ k + 1} : k \in 7 .. LargestExponent}

(* A regular file (fstat tells its size), or a device on which fstat       *)
(* reports 0.                                                              *)
InitFilesize ==
    /\ \E size \in FileSizes(MaxSize), regular \in BOOLEAN :
         gf = [op |-> "open", size |-> size, st_size |-> IF regular THEN size ELSE 0]
    /\ IdleRaw /\ IdleFactory /\ IdlePcap /\ IdleScan /\ IdleMoreExcept({"gf"})

GetFilesize ==
    /\ gf.op = "open"
    /\ gf' = [op |-> "get_filesize", size |-> gf.size, st_size |-> gf.st_size,
              result |-> get_filesize(gf.size, gf.st_size)]
    /\ UNCHANGED not_gf

NextFilesize == GetFilesize

SpecFilesize == InitFilesize /\ [][NextFilesize]_vars

(* C30 as stated: on a descriptor for which fstat reports no positive size *)
(* and a one-byte read at o succeeds exactly when o < S, get_filesize      *)
(* returns S, for S = 1 and for exact powers of two as for any other S.    *)
C30_FilesizeBySeeking ==
    (gf.op = "get_filesize" /\ gf.st_size <= 0) =>
        (gf.result.status = "ok" /\ gf.result.filesize = gf.size)

(* What does hold: get_filesize returns S for every S other than 1, and 0  *)
(* for S = 1.                                                              *)
C30_FilesizeBySeekingNotOne ==
    (gf.op = "get_filesize" /\ gf.st_size <= 0) =>
        /\ gf.result.status = "ok"
        /\ gf.size # 1 => gf.result.filesize = gf.size
        /\ gf.size = 1 => gf.result.filesize = 0

(* a device of 2^20 bytes *)
C30_PowerOfTwo ==
    /\ gf.op = "get_filesize" /\ gf.st_size = 0 /\ gf.size = 2 ^ 20
    /\ gf.result.filesize = 2 ^ 20

(* a device of one byte is given the size 0 *)
C30_OneByte ==
    /\ gf.op = "get_filesize" /\ gf.st_size = 0 /\ gf.size = 1 /\ gf.result.filesize = 0

=============================================================================
